---- MODULE Spec2Model ----
(***************************************************************************)
(* Model of the Miniscript interpreter stack (src/interpreter/stack.rs):   *)
(* the witness-stack Element, the Stack primitives and the per-fragment    *)
(* evaluators.  Every evaluator is an operator from (stack, arguments) to  *)
(* the pair [stack, res] of the stack it leaves and the value it returns;  *)
(* the actions apply the evaluators to the state.                          *)
(***************************************************************************)
EXTENDS Integers, Sequences, FiniteSets, TLC

VARIABLES
    stack,      \* Stack.0 : the Vec<Element>, index 1 = bottom, last = top
    prev,       \* history: the stack as it was before the last call
    call,       \* history: the last call, its name and its arguments
    result,     \* the value the last call returned
    drv,        \* the multisig driver: its keys, threshold and progress
    script,     \* lex: the instructions of the script being tokenized
    pc,         \* lex: index of the next instruction of the loop
    ret,        \* lex: the Vec<Token> built so far
    pret,       \* history: ret as it was before the last instruction
    lexres,     \* lex: what lex returned, once it has returned
    sh          \* the Sh descriptor the descriptor methods are called on

vars == <<stack, prev, call, result, drv, script, pc, ret, pret, lexres, sh>>

\* the state of the lexer, and the state outside the interpreter stack
lexVars == <<script, pc, ret, pret, lexres>>
nonStackVars == <<drv, sh, lexVars>>

\* the components a specification does not exercise stay as constructed
DrvIdle == drv = [status |-> "idle"]
ShIdle == sh = [variant |-> "none"]
LexIdle ==
    /\ script = <<>>
    /\ pc = 1
    /\ ret = <<>>
    /\ pret = <<>>
    /\ lexres = [kind |-> "Idle"]

----------------------------------------------------------------------------
(* Bounds of the model *)

\* the deepest stack an evaluation starts from
MaxInit == 3
\* the deepest stack a call that only pushes may be applied to
MaxDepth == 4
\* the deepest stack the conversions build
MaxBuild == 2

----------------------------------------------------------------------------
(* Byte strings *)

Rep(b, n) == [i \in 1..n |-> b]

Key1Bytes == <<2>> \o Rep(17, 32)
Key2Bytes == <<3>> \o Rep(34, 32)
Sig1Bytes == <<48, 17, 1>>
Sig2Bytes == <<48, 34, 1>>
Key3Bytes == <<2>> \o Rep(51, 32)
Sig3Bytes == <<48, 51, 1>>
Pre32 == Rep(170, 32)
Pre31 == Rep(170, 31)
Pre33 == Rep(170, 33)

\* the byte strings a witness or a script_sig push supplies
WitnessBytes ==
    { <<>>, <<1>>, Sig1Bytes, Sig2Bytes, Key1Bytes, Pre32, Pre31, Pre33 }

\* byte strings given to the conversions: the witness strings and the
\* near-boolean encodings
ConvBytes == WitnessBytes \cup { <<0>>, <<1, 0>>, <<2>>, <<0, 1>> }

----------------------------------------------------------------------------
(* Element *)

Satisfied == [tag |-> "Satisfied", bytes |-> <<>>]
Dissatisfied == [tag |-> "Dissatisfied", bytes |-> <<>>]
Push(v) == [tag |-> "Push", bytes |-> v]

\* variant: the one-byte string [0x00] is taken for false as well
ElementFrom_zero_is_false(v) ==
    IF v = <<1>> THEN Satisfied
    ELSE IF Len(v) = 0 \/ v = <<0>> THEN Dissatisfied
    ELSE Push(v)

\* impl From<&[u8]> for Element
ElementFrom(v) ==
    IF v = <<1>> THEN Satisfied
    ELSE IF Len(v) = 0 THEN Dissatisfied
    ELSE Push(v)

\* Result<_, Error> and Option<Result<_, Error>> values
RetOk(x) == [kind |-> "Ok", c |-> x]
RetErr(e) == [kind |-> "Err", e |-> e]
RetNone == [kind |-> "None"]
Err(t) == [type |-> t]

\* script::Instruction values handed to from_instruction
Instructions ==
    { [t |-> "PushBytes", v |-> v] : v \in ConvBytes }
    \cup { [t |-> "Op", op |-> o] :
             o \in {"OP_PUSHNUM_1", "OP_PUSHNUM_2", "OP_PUSHNUM_NEG1",
                    "OP_DUP", "OP_CHECKSIG"} }
    \cup { [t |-> "Error"] }

from_instruction(ins) ==
    IF ins.t = "PushBytes" THEN RetOk(ElementFrom(ins.v))
    ELSE IF ins.t = "Op" /\ ins.op = "OP_PUSHNUM_1" THEN RetOk(Satisfied)
    ELSE RetErr(Err("ExpectedPush"))

----------------------------------------------------------------------------
(* Stack primitives *)

pop(s) == SubSeq(s, 1, Len(s) - 1)
push(s, e) == Append(s, e)
last(s) == s[Len(s)]

\* variant: the top k elements are split off, as the doc comment has it
split_off_top_k(s, k) ==
    IF k > Len(s) THEN [stack |-> s, res |-> [kind |-> "Panic"]]
    ELSE [stack |-> SubSeq(s, 1, Len(s) - k),
          res |-> [kind |-> "Vec", c |-> SubSeq(s, Len(s) - k + 1, Len(s))]]

\* Stack::split_off: Vec::split_off(k), which panics when k > len
split_off(s, k) ==
    IF k > Len(s) THEN [stack |-> s, res |-> [kind |-> "Panic"]]
    ELSE [stack |-> SubSeq(s, 1, k),
          res |-> [kind |-> "Vec", c |-> SubSeq(s, k + 1, Len(s))]]

\* every stack of at most n elements built from witness byte strings
StacksUpTo(n) ==
    UNION { [1..k -> { ElementFrom(v) : v \in WitnessBytes }] : k \in 0..n }

----------------------------------------------------------------------------
(* Keys, signatures and hashes: the collaborators of the evaluators *)

\* bitcoin::PublicKey::from_slice
PublicKey_from_slice(data) ==
    IF Len(data) = 33 /\ data[1] \in {2, 3}
        THEN RetOk([compressed |-> TRUE, key |-> data])
    ELSE IF Len(data) = 65 /\ data[1] \in {4, 6, 7}
        THEN RetOk([compressed |-> FALSE, key |-> data])
    ELSE RetErr(Err("PubkeyParseError"))

Pk1 == PublicKey_from_slice(Key1Bytes).c
Pk2 == PublicKey_from_slice(Key2Bytes).c
Keys == {Pk1, Pk2}
Pk3 == PublicKey_from_slice(Key3Bytes).c

\* the caller's verification predicate: the signature was made by pk
verify_sig(pk, sig) == sig.der = <<48, pk.key[2]>>

\* super::verify_sersig: split off the sighash byte, parse the DER
\* signature, ask the caller's predicate
verify_sersig(pk, sigser) ==
    IF Len(sigser) = 0 THEN RetErr([type |-> "PkEvaluationError", pk |-> pk])
    ELSE LET sig == [der |-> SubSeq(sigser, 1, Len(sigser) - 1),
                     hashty |-> sigser[Len(sigser)]]
         IN IF ~(Len(sig.der) >= 2 /\ sig.der[1] = 48)
                THEN RetErr(Err("Secp"))
            ELSE IF verify_sig(pk, sig) THEN RetOk(sig)
            ELSE RetErr([type |-> "InvalidSignature", pk |-> pk])

\* the four hash functions, as ideal (collision-free) hashes
sha256_hash(b) == [alg |-> "sha256", pre |-> b]
sha256d_hash(b) == [alg |-> "sha256d", pre |-> b]
hash160_hash(b) == [alg |-> "hash160", pre |-> b]
ripemd160_hash(b) == [alg |-> "ripemd160", pre |-> b]

----------------------------------------------------------------------------
(* Evaluators *)

Ret(s, r) == [stack |-> s, res |-> r]

\* variant: the Dissatisfied signature slot is consumed, not pushed back
evaluate_pk_drop_dissat(s, pk) ==
    IF Len(s) > 0 THEN
        LET sigser == last(s)
            s1 == pop(s)
        IN CASE sigser.tag = "Dissatisfied" -> Ret(s1, RetNone)
             [] sigser.tag = "Push" ->
                    LET sig == verify_sersig(pk, sigser.bytes)
                    IN IF sig.kind = "Ok"
                           THEN Ret(push(s1, Satisfied),
                                    RetOk([type |-> "PublicKey",
                                           key |-> pk, sig |-> sig.c]))
                       ELSE Ret(s1, RetErr(sig.e))
             [] sigser.tag = "Satisfied" ->
                    Ret(s1, RetErr([type |-> "PkEvaluationError", pk |-> pk]))
    ELSE Ret(s, RetErr(Err("UnexpectedStackEnd")))

\* variant: a signature that does not verify is a soft dissatisfaction
evaluate_pk_soft_badsig(s, pk) ==
    IF Len(s) > 0 THEN
        LET sigser == last(s)
            s1 == pop(s)
        IN CASE sigser.tag = "Dissatisfied" ->
                    Ret(push(s1, Dissatisfied), RetNone)
             [] sigser.tag = "Push" ->
                    LET sig == verify_sersig(pk, sigser.bytes)
                    IN IF sig.kind = "Ok"
                           THEN Ret(push(s1, Satisfied),
                                    RetOk([type |-> "PublicKey",
                                           key |-> pk, sig |-> sig.c]))
                       ELSE Ret(push(s1, Dissatisfied), RetNone)
             [] sigser.tag = "Satisfied" ->
                    Ret(s1, RetErr([type |-> "PkEvaluationError", pk |-> pk]))
    ELSE Ret(s, RetErr(Err("UnexpectedStackEnd")))

\* Stack::evaluate_pk
evaluate_pk(s, pk) ==
    IF Len(s) > 0 THEN
        LET sigser == last(s)
            s1 == pop(s)
        IN CASE sigser.tag = "Dissatisfied" ->
                    Ret(push(s1, Dissatisfied), RetNone)
             [] sigser.tag = "Push" ->
                    LET sig == verify_sersig(pk, sigser.bytes)
                    IN IF sig.kind = "Ok"
                           THEN Ret(push(s1, Satisfied),
                                    RetOk([type |-> "PublicKey",
                                           key |-> pk, sig |-> sig.c]))
                       ELSE Ret(s1, RetErr(sig.e))
             [] sigser.tag = "Satisfied" ->
                    Ret(s1, RetErr([type |-> "PkEvaluationError", pk |-> pk]))
    ELSE Ret(s, RetErr(Err("UnexpectedStackEnd")))

\* the signature half of evaluate_pkh variants: as the code has it
pkh_signature_slot(s1, pkh, key) ==
    IF Len(s1) > 0 THEN
        LET sigser == last(s1)
            s2 == pop(s1)
        IN CASE sigser.tag = "Dissatisfied" ->
                    Ret(push(s2, Dissatisfied), RetNone)
             [] sigser.tag = "Push" ->
                    LET sig == verify_sersig(key, sigser.bytes)
                    IN IF sig.kind = "Ok"
                           THEN Ret(push(s2, Satisfied),
                                    RetOk([type |-> "PublicKeyHash",
                                           keyhash |-> pkh,
                                           key |-> key,
                                           sig |-> sig.c]))
                       ELSE Ret(s2, RetErr(sig.e))
             [] sigser.tag = "Satisfied" ->
                    Ret(s2, RetErr([type |-> "PkEvaluationError", pk |-> key]))
    ELSE Ret(s1, RetErr(Err("UnexpectedStackEnd")))

\* variant: the key is parsed before its hash is compared
evaluate_pkh_parse_first(s, pkh) ==
    IF Len(s) > 0 /\ last(s).tag = "Push" THEN
        LET pk == last(s).bytes
            s1 == pop(s)
            parsed == PublicKey_from_slice(pk)
        IN IF parsed.kind # "Ok"
               THEN Ret(s1, RetErr(Err("PubkeyParseError")))
           ELSE IF hash160_hash(pk) # pkh
               THEN Ret(s1, RetErr([type |-> "PkHashVerifyFail", pkh |-> pkh]))
           ELSE pkh_signature_slot(s1, pkh, parsed.c)
    ELSE Ret(pop(s), RetErr(Err("UnexpectedStackEnd")))

\* variant: a Satisfied marker in the signature slot is left in place
evaluate_pkh_keep_marker(s, pkh) ==
    IF Len(s) > 0 /\ last(s).tag = "Push" THEN
        LET pk == last(s).bytes
            s1 == pop(s)
            parsed == PublicKey_from_slice(pk)
        IN IF hash160_hash(pk) # pkh
               THEN Ret(s1, RetErr([type |-> "PkHashVerifyFail", pkh |-> pkh]))
           ELSE IF parsed.kind # "Ok"
               THEN Ret(s1, RetErr(Err("PubkeyParseError")))
           ELSE IF Len(s1) > 0 /\ last(s1).tag = "Satisfied"
               THEN Ret(s1, RetErr([type |-> "PkEvaluationError", pk |-> parsed.c]))
           ELSE pkh_signature_slot(s1, pkh, parsed.c)
    ELSE Ret(pop(s), RetErr(Err("UnexpectedStackEnd")))

\* Stack::evaluate_pkh
evaluate_pkh(s, pkh) ==
    IF Len(s) > 0 /\ last(s).tag = "Push" THEN
        LET pk == last(s).bytes
            s1 == pop(s)
        IN IF hash160_hash(pk) # pkh
               THEN Ret(s1, RetErr([type |-> "PkHashVerifyFail", pkh |-> pkh]))
           ELSE LET parsed == PublicKey_from_slice(pk)
                IN IF parsed.kind = "Ok" THEN
                       IF Len(s1) > 0 THEN
                           LET sigser == last(s1)
                               s2 == pop(s1)
                           IN CASE sigser.tag = "Dissatisfied" ->
                                       Ret(push(s2, Dissatisfied), RetNone)
                                [] sigser.tag = "Push" ->
                                       LET sig == verify_sersig(parsed.c, sigser.bytes)
                                       IN IF sig.kind = "Ok"
                                              THEN Ret(push(s2, Satisfied),
                                                       RetOk([type |-> "PublicKeyHash",
                                                              keyhash |-> pkh,
                                                              key |-> parsed.c,
                                                              sig |-> sig.c]))
                                          ELSE Ret(s2, RetErr(sig.e))
                                [] sigser.tag = "Satisfied" ->
                                       Ret(s2, RetErr([type |-> "PkEvaluationError",
                                                       pk |-> parsed.c]))
                       ELSE Ret(s1, RetErr(Err("UnexpectedStackEnd")))
                   ELSE Ret(s1, RetErr(Err("PubkeyParseError")))
    \* `if let Some(Element::Push(pk)) = self.pop()`: the pop is made even
    \* when the pattern does not match
    ELSE Ret(pop(s), RetErr(Err("UnexpectedStackEnd")))

\* variant: the threshold itself is not yet enough
evaluate_after_strict(s, n, age) ==
    IF age > n
        THEN Ret(push(s, Satisfied), RetOk([type |-> "AbsoluteTimeLock", time |-> n]))
    ELSE Ret(s, RetErr([type |-> "AbsoluteLocktimeNotMet", n |-> n]))

\* Stack::evaluate_after
evaluate_after(s, n, age) ==
    IF age >= n
        THEN Ret(push(s, Satisfied), RetOk([type |-> "AbsoluteTimeLock", time |-> n]))
    ELSE Ret(s, RetErr([type |-> "AbsoluteLocktimeNotMet", n |-> n]))

\* Stack::evaluate_older
evaluate_older(s, n, height) ==
    IF height >= n
        THEN Ret(push(s, Satisfied), RetOk([type |-> "RelativeTimeLock", time |-> n]))
    ELSE Ret(s, RetErr([type |-> "RelativeLocktimeNotMet", n |-> n]))

\* Stack::evaluate_sha256
evaluate_sha256(s, hash) ==
    IF Len(s) > 0 /\ last(s).tag = "Push" THEN
        LET preimage == last(s).bytes
            s1 == pop(s)
        IN IF Len(preimage) # 32
               THEN Ret(s1, RetErr(Err("HashPreimageLengthMismatch")))
           ELSE IF sha256_hash(preimage) = hash
               THEN Ret(push(s1, Satisfied),
                        RetOk([type |-> "HashLock", hash |-> [ty |-> "Sha256", h |-> hash],
                               preimage |-> preimage]))
           ELSE Ret(push(s1, Dissatisfied), RetNone)
    ELSE Ret(pop(s), RetErr(Err("UnexpectedStackEnd")))

\* Stack::evaluate_hash256
evaluate_hash256(s, hash) ==
    IF Len(s) > 0 /\ last(s).tag = "Push" THEN
        LET preimage == last(s).bytes
            s1 == pop(s)
        IN IF Len(preimage) # 32
               THEN Ret(s1, RetErr(Err("HashPreimageLengthMismatch")))
           ELSE IF sha256d_hash(preimage) = hash
               THEN Ret(push(s1, Satisfied),
                        RetOk([type |-> "HashLock", hash |-> [ty |-> "Hash256", h |-> hash],
                               preimage |-> preimage]))
           ELSE Ret(push(s1, Dissatisfied), RetNone)
    ELSE Ret(pop(s), RetErr(Err("UnexpectedStackEnd")))

\* variant: the constraint is tagged with the other 160-bit algorithm
evaluate_hash160_wrong_tag(s, hash) ==
    IF Len(s) > 0 /\ last(s).tag = "Push" THEN
        LET preimage == last(s).bytes
            s1 == pop(s)
        IN IF Len(preimage) # 32
               THEN Ret(s1, RetErr(Err("HashPreimageLengthMismatch")))
           ELSE IF hash160_hash(preimage) = hash
               THEN Ret(push(s1, Satisfied),
                        RetOk([type |-> "HashLock", hash |-> [ty |-> "Ripemd160", h |-> hash],
                               preimage |-> preimage]))
           ELSE Ret(push(s1, Dissatisfied), RetNone)
    ELSE Ret(pop(s), RetErr(Err("UnexpectedStackEnd")))

\* Stack::evaluate_hash160
evaluate_hash160(s, hash) ==
    IF Len(s) > 0 /\ last(s).tag = "Push" THEN
        LET preimage == last(s).bytes
            s1 == pop(s)
        IN IF Len(preimage) # 32
               THEN Ret(s1, RetErr(Err("HashPreimageLengthMismatch")))
           ELSE IF hash160_hash(preimage) = hash
               THEN Ret(push(s1, Satisfied),
                        RetOk([type |-> "HashLock", hash |-> [ty |-> "Hash160", h |-> hash],
                               preimage |-> preimage]))
           ELSE Ret(push(s1, Dissatisfied), RetNone)
    ELSE Ret(pop(s), RetErr(Err("UnexpectedStackEnd")))

\* variant: only a preimage longer than 32 bytes is rejected
evaluate_ripemd160_len_upper(s, hash) ==
    IF Len(s) > 0 /\ last(s).tag = "Push" THEN
        LET preimage == last(s).bytes
            s1 == pop(s)
        IN IF Len(preimage) > 32
               THEN Ret(s1, RetErr(Err("HashPreimageLengthMismatch")))
           ELSE IF ripemd160_hash(preimage) = hash
               THEN Ret(push(s1, Satisfied),
                        RetOk([type |-> "HashLock", hash |-> [ty |-> "Ripemd160", h |-> hash],
                               preimage |-> preimage]))
           ELSE Ret(push(s1, Dissatisfied), RetNone)
    ELSE Ret(pop(s), RetErr(Err("UnexpectedStackEnd")))

\* Stack::evaluate_ripemd160
evaluate_ripemd160(s, hash) ==
    IF Len(s) > 0 /\ last(s).tag = "Push" THEN
        LET preimage == last(s).bytes
            s1 == pop(s)
        IN IF Len(preimage) # 32
               THEN Ret(s1, RetErr(Err("HashPreimageLengthMismatch")))
           ELSE IF ripemd160_hash(preimage) = hash
               THEN Ret(push(s1, Satisfied),
                        RetOk([type |-> "HashLock", hash |-> [ty |-> "Ripemd160", h |-> hash],
                               preimage |-> preimage]))
           ELSE Ret(push(s1, Dissatisfied), RetNone)
    ELSE Ret(pop(s), RetErr(Err("UnexpectedStackEnd")))

\* variant: the rejected element is not pushed back
evaluate_multi_no_restore(s, pk) ==
    IF Len(s) > 0 THEN
        LET witness_sig == last(s)
            s1 == pop(s)
        IN IF witness_sig.tag = "Push" THEN
               LET sig == verify_sersig(pk, witness_sig.bytes)
               IN IF sig.kind = "Ok"
                      THEN Ret(s1, RetOk([type |-> "PublicKey",
                                          key |-> pk, sig |-> sig.c]))
                  ELSE Ret(s1, RetNone)
           ELSE Ret(s1, RetErr(Err("UnexpectedStackBoolean")))
    ELSE Ret(s, RetErr(Err("UnexpectedStackEnd")))

\* variant: a Dissatisfied marker is a soft "no match", as in evaluate_pk
evaluate_multi_soft_bool(s, pk) ==
    IF Len(s) > 0 THEN
        LET witness_sig == last(s)
            s1 == pop(s)
        IN IF witness_sig.tag = "Push" THEN
               LET sig == verify_sersig(pk, witness_sig.bytes)
               IN IF sig.kind = "Ok"
                      THEN Ret(s1, RetOk([type |-> "PublicKey",
                                          key |-> pk, sig |-> sig.c]))
                  ELSE Ret(push(s1, witness_sig), RetNone)
           ELSE IF witness_sig.tag = "Dissatisfied"
               THEN Ret(push(s1, witness_sig), RetNone)
           ELSE Ret(s1, RetErr(Err("UnexpectedStackBoolean")))
    ELSE Ret(s, RetErr(Err("UnexpectedStackEnd")))

\* Stack::evaluate_multi
evaluate_multi(s, pk) ==
    IF Len(s) > 0 THEN
        LET witness_sig == last(s)
            s1 == pop(s)
        IN IF witness_sig.tag = "Push" THEN
               LET sig == verify_sersig(pk, witness_sig.bytes)
               IN IF sig.kind = "Ok"
                      THEN Ret(s1, RetOk([type |-> "PublicKey",
                                          key |-> pk, sig |-> sig.c]))
                  ELSE Ret(push(s1, witness_sig), RetNone)
           ELSE Ret(s1, RetErr(Err("UnexpectedStackBoolean")))
    ELSE Ret(s, RetErr(Err("UnexpectedStackEnd")))

----------------------------------------------------------------------------
(* Arguments of the calls *)

\* key hashes a pkh fragment commits to: of a key, and of bytes that are no key
KeyHashes == { hash160_hash(Key1Bytes), hash160_hash(Pre33) }

\* timelock thresholds and ambient heights/times
LockValues == {500, 501}
AmbientValues == {499, 500, 501}

\* the byte strings hash-lock targets are the hashes of
TargetPreimages == {Pre32, Pre31, Pre33}

----------------------------------------------------------------------------
(* Actions *)

\* one call of an evaluator: r is what the evaluator computes from the
\* current stack, c names the call
EvaluatePk ==
    \E pk \in Keys :
        LET r == evaluate_pk(stack, pk)
        IN /\ stack' = r.stack
           /\ result' = r.res
           /\ prev' = stack
           /\ UNCHANGED nonStackVars
           /\ call' = [op |-> "evaluate_pk", pk |-> pk]

EvaluatePkh ==
    \E pkh \in KeyHashes :
        LET r == evaluate_pkh(stack, pkh)
        IN /\ stack' = r.stack
           /\ result' = r.res
           /\ prev' = stack
           /\ UNCHANGED nonStackVars
           /\ call' = [op |-> "evaluate_pkh", pkh |-> pkh]

EvaluateAfter ==
    \E n \in LockValues, age \in AmbientValues :
        LET r == evaluate_after(stack, n, age)
        IN /\ Len(stack) < MaxDepth
           /\ stack' = r.stack
           /\ result' = r.res
           /\ prev' = stack
           /\ UNCHANGED nonStackVars
           /\ call' = [op |-> "evaluate_after", n |-> n, ambient |-> age]

EvaluateOlder ==
    \E n \in LockValues, height \in AmbientValues :
        LET r == evaluate_older(stack, n, height)
        IN /\ Len(stack) < MaxDepth
           /\ stack' = r.stack
           /\ result' = r.res
           /\ prev' = stack
           /\ UNCHANGED nonStackVars
           /\ call' = [op |-> "evaluate_older", n |-> n, ambient |-> height]

EvaluateSha256 ==
    \E p \in TargetPreimages :
        LET r == evaluate_sha256(stack, sha256_hash(p))
        IN /\ stack' = r.stack
           /\ result' = r.res
           /\ prev' = stack
           /\ UNCHANGED nonStackVars
           /\ call' = [op |-> "evaluate_sha256", hash |-> sha256_hash(p)]

EvaluateHash256 ==
    \E p \in TargetPreimages :
        LET r == evaluate_hash256(stack, sha256d_hash(p))
        IN /\ stack' = r.stack
           /\ result' = r.res
           /\ prev' = stack
           /\ UNCHANGED nonStackVars
           /\ call' = [op |-> "evaluate_hash256", hash |-> sha256d_hash(p)]

EvaluateHash160 ==
    \E p \in TargetPreimages :
        LET r == evaluate_hash160(stack, hash160_hash(p))
        IN /\ stack' = r.stack
           /\ result' = r.res
           /\ prev' = stack
           /\ UNCHANGED nonStackVars
           /\ call' = [op |-> "evaluate_hash160", hash |-> hash160_hash(p)]

EvaluateRipemd160 ==
    \E p \in TargetPreimages :
        LET r == evaluate_ripemd160(stack, ripemd160_hash(p))
        IN /\ stack' = r.stack
           /\ result' = r.res
           /\ prev' = stack
           /\ UNCHANGED nonStackVars
           /\ call' = [op |-> "evaluate_ripemd160", hash |-> ripemd160_hash(p)]

EvaluateMulti ==
    \E pk \in Keys :
        LET r == evaluate_multi(stack, pk)
        IN /\ stack' = r.stack
           /\ result' = r.res
           /\ prev' = stack
           /\ UNCHANGED nonStackVars
           /\ call' = [op |-> "evaluate_multi", pk |-> pk]

\* an evaluation starts from a stack made of the script_sig and the witness
Init ==
    /\ stack \in StacksUpTo(MaxInit)
    /\ prev = stack
    /\ call = [op |-> "new"]
    /\ result = [kind |-> "Unit"]
    /\ DrvIdle
    /\ ShIdle
    /\ LexIdle

SplitOff ==
    \E k \in 0..(MaxDepth + 1) :
        LET r == split_off(stack, k)
        IN /\ stack' = r.stack
           /\ result' = r.res
           /\ prev' = stack
           /\ UNCHANGED nonStackVars
           /\ call' = [op |-> "split_off", k |-> k]

Next ==
    \/ EvaluatePk
    \/ EvaluatePkh
    \/ EvaluateAfter
    \/ EvaluateOlder
    \/ EvaluateSha256
    \/ EvaluateHash256
    \/ EvaluateHash160
    \/ EvaluateRipemd160
    \/ EvaluateMulti
    \/ SplitOff

Spec == Init /\ [][Next]_vars

----------------------------------------------------------------------------
(* Building a stack: the conversions into Element, push and pop *)

\* Element::from(&[u8])
FromSlice ==
    \E v \in ConvBytes :
        /\ result' = [kind |-> "Element", c |-> ElementFrom(v)]
        /\ call' = [op |-> "from", v |-> v]
        /\ prev' = stack
        /\ UNCHANGED nonStackVars
        /\ UNCHANGED stack

\* Element::from_instruction
FromInstruction ==
    \E ins \in Instructions :
        /\ result' = from_instruction(ins)
        /\ call' = [op |-> "from_instruction", ins |-> ins]
        /\ prev' = stack
        /\ UNCHANGED nonStackVars
        /\ UNCHANGED stack

\* Stack::push of the element a conversion returned
PushElement ==
    /\ call.op \in {"from", "from_instruction"}
    /\ result.kind \in {"Element", "Ok"}
    /\ Len(stack) < MaxBuild
    /\ stack' = push(stack, result.c)
    /\ result' = [kind |-> "Unit"]
    /\ call' = [op |-> "push", elem |-> result.c]
    /\ prev' = stack
    /\ UNCHANGED nonStackVars

\* Stack::pop
PopElement ==
    /\ stack' = pop(stack)
    /\ result' = IF Len(stack) > 0 THEN [kind |-> "Some", c |-> last(stack)]
                 ELSE RetNone
    /\ call' = [op |-> "pop"]
    /\ prev' = stack
    /\ UNCHANGED nonStackVars

InitBuild ==
    /\ stack = <<>>
    /\ prev = <<>>
    /\ call = [op |-> "new"]
    /\ result = [kind |-> "Unit"]
    /\ DrvIdle
    /\ ShIdle
    /\ LexIdle

NextBuild ==
    \/ FromSlice
    \/ FromInstruction
    \/ PushElement
    \/ PopElement

SpecBuild == InitBuild /\ [][NextBuild]_vars

----------------------------------------------------------------------------
(* The covenant evaluators: fixed slots of a deep stack *)

\* miniscript::limits
MAX_SCRIPT_ELEMENT_SIZE == 520
MAX_STANDARD_P2WSH_STACK_ITEM_SIZE == 80

\* the slots read by the covenant evaluators, as indices from the bottom
VerSlot == 11
OutputsSlot == 3

\* the deepest stack a covenant evaluator is started on
MaxCovDepth == 13

\* the stack after an index read out of bounds: the thread panics
RetPanic == [kind |-> "Panic"]

\* impl Index<usize> for Stack, indices counted from 0 at the bottom
InBounds(s, index) == index + 1 <= Len(s)
At(s, index) == s[index + 1]

\* Element::into_slice
into_slice(e) ==
    IF e.tag = "Satisfied" THEN <<1>>
    ELSE IF e.tag = "Dissatisfied" THEN <<>>
    ELSE e.bytes

\* util::slice_to_u32_le
slice_to_u32_le(b) == b[1] + 256 * b[2] + 65536 * b[3] + 16777216 * b[4]

\* sha256d::Hash::as_inner: the 32 bytes of a digest.  The digest of a
\* preimage is a function of every byte of it and of its length.
RECURSIVE ByteMix(_, _)
ByteMix(b, k) ==
    IF Len(b) = 0 THEN 0
    ELSE (b[1] * k + 3 * ByteMix(Tail(b), k + 1)) % 251
as_inner(h) ==
    [i \in 1..32 |->
        IF i <= Len(h.pre) THEN (h.pre[i] + i) % 256
        ELSE IF i = 31 THEN ByteMix(h.pre, 1)
        ELSE IF i = 32 THEN Len(h.pre) % 256
        ELSE 0]

\* variant: the slot is popped when the version differs
evaluate_ver_pop_on_mismatch(s, n) ==
    IF ~InBounds(s, VerSlot) THEN Ret(s, RetPanic)
    ELSE LET ver == At(s, VerSlot)
         IN IF ver.tag # "Push" THEN Ret(s, RetErr(Err("ExpectedPush")))
            ELSE LET elem == ver.bytes
                 IN IF Len(elem) = 4 THEN
                        IF slice_to_u32_le(elem) = n
                            THEN Ret(push(s, Satisfied), RetOk([type |-> "VerEq", n |-> n]))
                        ELSE Ret(pop(s), RetNone)
                    ELSE Ret(s, RetErr([type |-> "CovWitnessSizeErr", pos |-> 1,
                                        expected |-> 4, actual |-> Len(elem)]))

\* variant: on a match the top element is replaced by Satisfied
evaluate_ver_replace_top(s, n) ==
    IF ~InBounds(s, VerSlot) THEN Ret(s, RetPanic)
    ELSE LET ver == At(s, VerSlot)
         IN IF ver.tag # "Push" THEN Ret(s, RetErr(Err("ExpectedPush")))
            ELSE LET elem == ver.bytes
                 IN IF Len(elem) = 4 THEN
                        IF slice_to_u32_le(elem) = n
                            THEN Ret(push(pop(s), Satisfied),
                                     RetOk([type |-> "VerEq", n |-> n]))
                        ELSE Ret(s, RetNone)
                    ELSE Ret(s, RetErr([type |-> "CovWitnessSizeErr", pos |-> 1,
                                        expected |-> 4, actual |-> Len(elem)]))

\* Stack::evaluate_ver
evaluate_ver(s, n) ==
    IF ~InBounds(s, VerSlot) THEN Ret(s, RetPanic)
    ELSE LET ver == At(s, VerSlot)
         IN IF ver.tag # "Push" THEN Ret(s, RetErr(Err("ExpectedPush")))
            ELSE LET elem == ver.bytes
                 IN IF Len(elem) = 4 THEN
                        IF slice_to_u32_le(elem) = n
                            THEN Ret(push(s, Satisfied), RetOk([type |-> "VerEq", n |-> n]))
                        ELSE Ret(s, RetNone)
                    ELSE Ret(s, RetErr([type |-> "CovWitnessSizeErr", pos |-> 1,
                                        expected |-> 4, actual |-> Len(elem)]))

\* variant: the suffix elements are concatenated from the top down
RECURSIVE extend_suffix_top_down(_, _, _, _)
extend_suffix_top_down(builder, s, n, i) ==
    IF i >= n THEN builder
    ELSE extend_suffix_top_down(builder \o into_slice(At(s, Len(s) - 1 - i)),
                                s, n, i + 1)

\* the loop of evaluate_outputs_pref that extends outputs_builder with the
\* suffix elements self[len - max_elems + i], i = from .. max_elems - 1
RECURSIVE extend_suffix(_, _, _, _)
extend_suffix(builder, s, max_elems, i) ==
    IF i >= max_elems THEN builder
    ELSE extend_suffix(builder \o into_slice(At(s, Len(s) - max_elems + i)),
                       s, max_elems, i + 1)

\* the loop that pops n elements
RECURSIVE pop_n(_, _)
pop_n(s, n) == IF n = 0 THEN s ELSE pop_n(pop(s), n - 1)

\* Maximum number of suffix elements
max_elems == MAX_SCRIPT_ELEMENT_SIZE \div MAX_STANDARD_P2WSH_STACK_ITEM_SIZE + 1

\* variant: the size error swaps the expected and the actual size
evaluate_outputs_pref_swapped_sizes(s, pref) ==
    IF ~InBounds(s, OutputsSlot) THEN Ret(s, RetPanic)
    ELSE LET slot == At(s, OutputsSlot)
         IN IF slot.tag # "Push" THEN Ret(s, RetErr(Err("ExpectedPush")))
            ELSE LET hash_outputs == slot.bytes
                 IN IF Len(hash_outputs) = 32 THEN
                        IF Len(s) < max_elems
                            THEN Ret(s, RetErr(Err("UnexpectedStackEnd")))
                        ELSE LET outputs_builder == extend_suffix(pref, s, max_elems, 0)
                                 s1 == pop_n(s, max_elems)
                             IN IF as_inner(sha256d_hash(outputs_builder)) = hash_outputs
                                    THEN Ret(push(s1, Satisfied),
                                             RetOk([type |-> "OutputsPref", pref |-> pref]))
                                ELSE Ret(s1, RetNone)
                    ELSE Ret(s, RetErr([type |-> "CovWitnessSizeErr", pos |-> 9,
                                        expected |-> Len(hash_outputs), actual |-> 32]))

\* Stack::evaluate_outputs_pref
evaluate_outputs_pref(s, pref) ==
    IF ~InBounds(s, OutputsSlot) THEN Ret(s, RetPanic)
    ELSE LET slot == At(s, OutputsSlot)
         IN IF slot.tag # "Push" THEN Ret(s, RetErr(Err("ExpectedPush")))
            ELSE LET hash_outputs == slot.bytes
                 IN IF Len(hash_outputs) = 32 THEN
                        IF Len(s) < max_elems
                            THEN Ret(s, RetErr(Err("UnexpectedStackEnd")))
                        ELSE LET outputs_builder == extend_suffix(pref, s, max_elems, 0)
                                 s1 == pop_n(s, max_elems)
                             IN IF as_inner(sha256d_hash(outputs_builder)) = hash_outputs
                                    THEN Ret(push(s1, Satisfied),
                                             RetOk([type |-> "OutputsPref", pref |-> pref]))
                                ELSE Ret(s1, RetNone)
                    ELSE Ret(s, RetErr([type |-> "CovWitnessSizeErr", pos |-> 9,
                                        expected |-> 32, actual |-> Len(hash_outputs)]))

\* the versions a ver fragment names and the prefixes an outputs_pref
\* fragment names
VerValues == {513, 258}
Prefs == { <<7>>, <<7, 8>> }

\* the bytes of the elements of a sequence, first element first
RECURSIVE Flatten(_)
Flatten(es) ==
    IF Len(es) = 0 THEN <<>> ELSE into_slice(Head(es)) \o Flatten(Tail(es))

\* the top n elements of s: bottom first, and top first
TopOf(s, n) == SubSeq(s, Len(s) - n + 1, Len(s))
Reversed(es) == [i \in 1..Len(es) |-> es[Len(es) + 1 - i]]

\* an element as the witness supplies it at position i of the stack
Filler(i) == Push(<<i + 32>>)

\* s with the element at index (from the bottom) replaced, when it exists
WithSlot(s, index, e) == IF InBounds(s, index) THEN [s EXCEPT ![index + 1] = e] ELSE s

\* the elements tried in the version slot
VerElems ==
    { Push(<<1, 2, 0, 0>>), Push(<<2, 1, 0, 0>>), Push(<<1, 2, 0>>),
      Push(<<1, 2, 0, 0, 0>>), Dissatisfied, Satisfied }

\* the elements tried in the output commitment slot of stack s: no push,
\* pushes of 31, 32 and 33 bytes, and the digests of a prefix followed by
\* the top max_elems elements of s, bottom first and top first
OutputsElems(s) ==
    { Dissatisfied, Push(Pre31), Push(Pre32), Push(Pre33) }
    \cup (IF Len(s) < max_elems THEN {}
          ELSE { Push(as_inner(sha256d_hash(pref \o Flatten(TopOf(s, max_elems))))) :
                     pref \in Prefs }
               \cup { Push(as_inner(sha256d_hash(
                          pref \o Flatten(Reversed(TopOf(s, max_elems)))))) :
                          pref \in Prefs })

\* the stacks a covenant evaluator is started on
CovStacks ==
    UNION { UNION { UNION {
        { WithSlot(s1, OutputsSlot, c) : c \in OutputsElems(s1) \cup {Filler(OutputsSlot + 1)} } :
            s1 \in { WithSlot([i \in 1..n |-> IF i = j THEN e ELSE Filler(i)], VerSlot, v) :
                        v \in VerElems \cup {Filler(VerSlot + 1)} } } :
        j \in 0..n, e \in {Satisfied, Dissatisfied} } :
        n \in 0..MaxCovDepth }

EvaluateVer ==
    /\ Len(stack) <= MaxCovDepth
    /\ \E n \in VerValues :
        LET r == evaluate_ver(stack, n)
        IN /\ stack' = r.stack
           /\ result' = r.res
           /\ prev' = stack
           /\ UNCHANGED nonStackVars
           /\ call' = [op |-> "evaluate_ver", n |-> n]

EvaluateOutputsPref ==
    \E pref \in Prefs :
        LET r == evaluate_outputs_pref(stack, pref)
        IN /\ stack' = r.stack
           /\ result' = r.res
           /\ prev' = stack
           /\ UNCHANGED nonStackVars
           /\ call' = [op |-> "evaluate_outputs_pref", pref |-> pref]

InitCov ==
    /\ stack \in CovStacks
    /\ prev = stack
    /\ call = [op |-> "new"]
    /\ result = [kind |-> "Unit"]
    /\ DrvIdle
    /\ ShIdle
    /\ LexIdle

NextCov ==
    \/ EvaluateVer
    \/ EvaluateOutputsPref

SpecCov == InitCov /\ [][NextCov]_vars

----------------------------------------------------------------------------
(* The threshold driver of a multi fragment: evaluate_multi once per key, in *)
(* the key order of the policy, until k constraints are emitted             *)

\* the deepest witness stack handed to the driver
MaxMultiStack == 3

\* the key lists of the multi fragments driven
MultiKeyLists == { <<Pk1, Pk2>>, <<Pk1, Pk2, Pk3>> }

\* witness stacks: signatures of the three keys, a push that is no signature
\* and the Dissatisfied marker
MultiStacks ==
    UNION { [1..n -> { Push(Sig1Bytes), Push(Sig2Bytes), Push(Sig3Bytes),
                       Push(Pre32), Dissatisfied }] : n \in 0..MaxMultiStack }

\* one turn of the driver: the next key is tried against the top element
MultiStep ==
    /\ drv.status = "running"
    /\ LET pk == drv.keys[drv.i]
           r == evaluate_multi(stack, pk)
           got == IF r.res.kind = "Ok" THEN drv.got + 1 ELSE drv.got
       IN /\ stack' = r.stack
          /\ result' = r.res
          /\ prev' = stack
          /\ call' = [op |-> "evaluate_multi", pk |-> pk]
          /\ drv' = [drv EXCEPT
                       !.i = drv.i + 1,
                       !.got = got,
                       !.status = IF r.res.kind = "Err" THEN "error"
                                  ELSE IF got = drv.k \/ drv.i + 1 > Len(drv.keys)
                                      THEN "done"
                                  ELSE "running"]
    /\ UNCHANGED <<sh, lexVars>>

InitMulti ==
    /\ stack \in MultiStacks
    /\ prev = stack
    /\ call = [op |-> "new"]
    /\ result = [kind |-> "Unit"]
    /\ \E keys \in MultiKeyLists : \E k \in 1..Len(keys) :
           drv = [status |-> "running", keys |-> keys, k |-> k, i |-> 1,
                  got |-> 0, start |-> stack]
    /\ ShIdle
    /\ LexIdle

NextMulti ==
    \/ MultiStep

SpecMulti == InitMulti /\ [][NextMulti]_vars

----------------------------------------------------------------------------
(* The lexer: tokens, script items and the conversions lex relies on *)

\* the longest run of leading instructions of a script before its last one
MaxCtx == 2

\* Token values: a plain token, or a token with its payload
Tok(name) == [t |-> name]
Num(k) == [t |-> "Num", n |-> k]
Hash20(x) == [t |-> "Hash20", v |-> x]
Hash32(x) == [t |-> "Hash32", v |-> x]
Pubkey(pk) == [t |-> "Pubkey", pk |-> pk]
TokPush(x) == [t |-> "Push", v |-> x]
PickPush4(k) == [t |-> "PickPush4", n |-> k]
PickPush32(x) == [t |-> "PickPush32", v |-> x]
PickPush(x) == [t |-> "PickPush", v |-> x]

\* the opcodes lex turns into one plain token each
OpToken ==
    [ OP_BOOLAND |-> "BoolAnd", OP_BOOLOR |-> "BoolOr", OP_EQUAL |-> "Equal",
      OP_CHECKSIG |-> "CheckSig", OP_CHECKSIGFROMSTACK |-> "CheckSigFromStack",
      OP_CHECKSIGFROMSTACKVERIFY |-> "CheckSigFromStackVerify",
      OP_CHECKMULTISIG |-> "CheckMultiSig", OP_CSV |-> "CheckSequenceVerify",
      OP_CLTV |-> "CheckLockTimeVerify", OP_FROMALTSTACK |-> "FromAltStack",
      OP_TOALTSTACK |-> "ToAltStack", OP_LEFT |-> "Left",
      OP_CODESEPARATOR |-> "CodeSep", OP_OVER |-> "Over", OP_PICK |-> "Pick",
      OP_DROP |-> "Drop", OP_DEPTH |-> "Depth", OP_DUP |-> "Dup",
      OP_ADD |-> "Add", OP_SUB |-> "Sub", OP_IF |-> "If", OP_IFDUP |-> "IfDup",
      OP_NOTIF |-> "NotIf", OP_ELSE |-> "Else", OP_ENDIF |-> "EndIf",
      OP_0NOTEQUAL |-> "ZeroNotEqual", OP_SIZE |-> "Size", OP_SWAP |-> "Swap",
      OP_RIPEMD160 |-> "Ripemd160", OP_HASH160 |-> "Hash160",
      OP_SHA256 |-> "Sha256", OP_HASH256 |-> "Hash256" ]

\* the verify-suffixed opcodes and the token each pushes before Verify
VerifyOpToken ==
    [ OP_EQUALVERIFY |-> "Equal", OP_CHECKSIGVERIFY |-> "CheckSig",
      OP_CHECKMULTISIGVERIFY |-> "CheckMultiSig" ]

\* the small-number opcodes and the number each stands for
PushNumValue ==
    [ OP_PUSHNUM_1 |-> 1, OP_PUSHNUM_2 |-> 2, OP_PUSHNUM_3 |-> 3,
      OP_PUSHNUM_4 |-> 4, OP_PUSHNUM_5 |-> 5, OP_PUSHNUM_6 |-> 6,
      OP_PUSHNUM_7 |-> 7, OP_PUSHNUM_8 |-> 8, OP_PUSHNUM_9 |-> 9,
      OP_PUSHNUM_10 |-> 10, OP_PUSHNUM_11 |-> 11, OP_PUSHNUM_12 |-> 12,
      OP_PUSHNUM_13 |-> 13, OP_PUSHNUM_14 |-> 14, OP_PUSHNUM_15 |-> 15,
      OP_PUSHNUM_16 |-> 16 ]

\* opcodes lex has no arm for
OtherOps == {"OP_NOP", "OP_RETURN", "OP_PUSHNUM_NEG1", "OP_NOT"}

\* the items of an encoded script: an opcode, a data push, or bytes that
\* end before the push they announce is complete
OpItem(op) == [t |-> "Op", op |-> op]
PushItem(v) == [t |-> "PushBytes", v |-> v]
TruncatedItem == [t |-> "Truncated"]

\* Script::instructions_minimal: the Result the iterator yields for an item
instructions_minimal(item) ==
    IF item.t = "Truncated" THEN RetErr(Err("EarlyEndOfScript"))
    ELSE IF item.t = "PushBytes" /\ Len(item.v) = 1
              /\ (item.v[1] = 129 \/ (item.v[1] > 0 /\ item.v[1] <= 16))
        THEN RetErr(Err("NonMinimalPush"))
    ELSE RetOk(item)

\* the magnitude of little-endian bytes
RECURSIVE le_value(_)
le_value(b) == IF Len(b) = 0 THEN 0 ELSE b[1] + 256 * le_value(Tail(b))

\* script::read_scriptint
read_scriptint(v) ==
    IF Len(v) = 0 THEN RetOk(0)
    ELSE IF Len(v) > 4 THEN RetErr(Err("NumericOverflow"))
    ELSE IF v[Len(v)] >= 128
        THEN RetOk(0 - le_value([v EXCEPT ![Len(v)] = v[Len(v)] - 128]))
    ELSE RetOk(le_value(v))

\* util::build_scriptint, for n >= 0
RECURSIVE build_scriptint(_)
build_scriptint(n) ==
    IF n = 0 THEN <<>>
    ELSE IF n < 128 THEN <<n>>
    ELSE IF n < 256 THEN <<n, 0>>
    ELSE <<n % 256>> \o build_scriptint(n \div 256)

\* script::Builder::new().push_int(v).into_script()[1..], for v >= 0: an
\* opcode alone for 0 and 1..16, else the bytes after the push opcode
push_int_tail(v) == IF v <= 16 THEN <<>> ELSE build_scriptint(v)

\* PublicKey::to_bytes
to_bytes(pk) == IF pk.compressed THEN pk.key ELSE <<4>> \o Tail(pk.key)

----------------------------------------------------------------------------
(* lex: one arm of the match per operator; each gives Ok(ret) or Err(e) *)

\* variant: the token under a Swap is rewritten whatever it is
process_candidate_push_any_token(r) ==
    LET ret_len == Len(r)
    IN IF ret_len < 2 \/ r[ret_len].t # "Swap" THEN r
       ELSE LET x == r[ret_len - 1]
            IN IF x.t = "Hash20" \/ x.t = "Hash32"
                   THEN [r EXCEPT ![ret_len - 1] = TokPush(x.v)]
               ELSE IF x.t = "Pubkey"
                   THEN [r EXCEPT ![ret_len - 1] = TokPush(to_bytes(x.pk))]
               ELSE IF x.t = "Num"
                   THEN [r EXCEPT ![ret_len - 1] = TokPush(build_scriptint(x.n))]
               ELSE [r EXCEPT ![ret_len - 1] = TokPush(<<>>)]

\* fn process_candidate_push
process_candidate_push(r) ==
    LET ret_len == Len(r)
    IN IF ret_len < 2 \/ r[ret_len].t # "Swap" THEN r
       ELSE LET x == r[ret_len - 1]
            IN IF x.t = "Hash20" \/ x.t = "Hash32"
                   THEN [r EXCEPT ![ret_len - 1] = TokPush(x.v)]
               ELSE IF x.t = "Pubkey"
                   THEN [r EXCEPT ![ret_len - 1] = TokPush(to_bytes(x.pk))]
               ELSE IF x.t = "Num"
                   THEN [r EXCEPT ![ret_len - 1] = TokPush(build_scriptint(x.n))]
               ELSE r

\* variant: Verify is pushed before the base token
push_with_verify_first(r, base) == r \o << Tok("Verify"), Tok(base) >>

\* the arms of OP_EQUALVERIFY, OP_CHECKSIGVERIFY, OP_CHECKMULTISIGVERIFY
push_with_verify(r, base) == r \o << Tok(base), Tok("Verify") >>

\* variant: OP_VERIFY is taken after any token
lex_op_any_verify(r, op) ==
    IF op \in DOMAIN VerifyOpToken
        THEN RetOk(push_with_verify(r, VerifyOpToken[op]))
    ELSE IF op = "OP_CAT"
        THEN RetOk(Append(process_candidate_push(r), Tok("Cat")))
    ELSE IF op = "OP_VERIFY" THEN RetOk(Append(r, Tok("Verify")))
    ELSE IF op \in DOMAIN OpToken THEN RetOk(Append(r, Tok(OpToken[op])))
    ELSE IF op = "OP_PUSHBYTES_0" THEN RetOk(Append(r, Num(0)))
    ELSE IF op \in DOMAIN PushNumValue THEN RetOk(Append(r, Num(PushNumValue[op])))
    ELSE RetErr([type |-> "InvalidOpcode", op |-> op])

\* variant: an opcode without an arm is skipped
lex_op_skip_unknown(r, op) ==
    IF op \in DOMAIN VerifyOpToken
        THEN RetOk(push_with_verify(r, VerifyOpToken[op]))
    ELSE IF op = "OP_CAT"
        THEN RetOk(Append(process_candidate_push(r), Tok("Cat")))
    ELSE IF op = "OP_VERIFY"
        THEN IF Len(r) > 0 /\ r[Len(r)].t \in {"Equal", "CheckSig", "CheckMultiSig"}
                 THEN RetErr([type |-> "NonMinimalVerify", tok |-> r[Len(r)]])
             ELSE RetOk(Append(r, Tok("Verify")))
    ELSE IF op \in DOMAIN OpToken THEN RetOk(Append(r, Tok(OpToken[op])))
    ELSE IF op = "OP_PUSHBYTES_0" THEN RetOk(Append(r, Num(0)))
    ELSE IF op \in DOMAIN PushNumValue THEN RetOk(Append(r, Num(PushNumValue[op])))
    ELSE RetOk(r)

\* the arms of the match for Instruction::Op
lex_op(r, op) ==
    IF op \in DOMAIN VerifyOpToken
        THEN RetOk(push_with_verify(r, VerifyOpToken[op]))
    ELSE IF op = "OP_CAT"
        THEN RetOk(Append(process_candidate_push(r), Tok("Cat")))
    ELSE IF op = "OP_VERIFY"
        THEN IF Len(r) > 0 /\ r[Len(r)].t \in {"Equal", "CheckSig", "CheckMultiSig"}
                 THEN RetErr([type |-> "NonMinimalVerify", tok |-> r[Len(r)]])
             ELSE RetOk(Append(r, Tok("Verify")))
    ELSE IF op \in DOMAIN OpToken THEN RetOk(Append(r, Tok(OpToken[op])))
    ELSE IF op = "OP_PUSHBYTES_0" THEN RetOk(Append(r, Num(0)))
    ELSE IF op \in DOMAIN PushNumValue THEN RetOk(Append(r, Num(PushNumValue[op])))
    ELSE RetErr([type |-> "InvalidOpcode", op |-> op])

\* variant: the Pick token stays in front of the fused token
lex_pick_push_keep_pick(r, bytes) ==
    IF Len(bytes) = 4 THEN RetOk(Append(r, PickPush4(slice_to_u32_le(bytes))))
    ELSE IF Len(bytes) = 32 THEN RetOk(Append(r, PickPush32(bytes)))
    ELSE RetErr([type |-> "InvalidPush", bytes |-> bytes])

\* variant: a push of any other length is fused as well
lex_pick_push_any_length(r, bytes) ==
    LET r1 == SubSeq(r, 1, Len(r) - 1)
    IN IF Len(bytes) = 4 THEN RetOk(Append(r1, PickPush4(slice_to_u32_le(bytes))))
       ELSE IF Len(bytes) = 32 THEN RetOk(Append(r1, PickPush32(bytes)))
       ELSE RetOk(Append(r1, PickPush(bytes)))

\* PushBytes when ret.last() is Pick
lex_pick_push(r, bytes) ==
    LET r1 == SubSeq(r, 1, Len(r) - 1)
    IN IF Len(bytes) = 4 THEN RetOk(Append(r1, PickPush4(slice_to_u32_le(bytes))))
       ELSE IF Len(bytes) = 32 THEN RetOk(Append(r1, PickPush32(bytes)))
       ELSE RetErr([type |-> "InvalidPush", bytes |-> bytes])

\* variant: bytes that are no public key become an opaque Push
lex_pubkey_push_fallback(r, bytes) ==
    LET pk == PublicKey_from_slice(bytes)
    IN IF pk.kind = "Err" THEN RetOk(Append(r, TokPush(bytes)))
       ELSE RetOk(Append(r, Pubkey(pk.c)))

\* PushBytes of 33 or 65 bytes
lex_pubkey_push(r, bytes) ==
    LET pk == PublicKey_from_slice(bytes)
    IN IF pk.kind = "Err" THEN RetErr([type |-> "BadPubkey", e |-> pk.e])
       ELSE RetOk(Append(r, Pubkey(pk.c)))

\* variant: the number is accepted without the check of minimality
lex_scriptint_push_unchecked(r, bytes) ==
    LET v == read_scriptint(bytes)
    IN IF v.kind = "Ok" /\ v.c >= 0 THEN RetOk(Append(r, Num(v.c)))
       ELSE RetOk(Append(r, TokPush(bytes)))

\* PushBytes of any other length
lex_scriptint_push(r, bytes) ==
    LET v == read_scriptint(bytes)
    IN IF v.kind = "Ok" /\ v.c >= 0
           THEN IF push_int_tail(v.c) # bytes
                    THEN RetErr([type |-> "InvalidPush", bytes |-> bytes])
                ELSE RetOk(Append(r, Num(v.c)))
       ELSE RetOk(Append(r, TokPush(bytes)))

\* the arm of the match for Instruction::PushBytes
lex_push(r, bytes) ==
    IF Len(r) > 0 /\ r[Len(r)].t = "Pick" THEN lex_pick_push(r, bytes)
    ELSE IF Len(bytes) = 20 THEN RetOk(Append(r, Hash20(bytes)))
    ELSE IF Len(bytes) = 32 THEN RetOk(Append(r, Hash32(bytes)))
    ELSE IF Len(bytes) = 33 \/ Len(bytes) = 65 THEN lex_pubkey_push(r, bytes)
    ELSE lex_scriptint_push(r, bytes)

\* the body of the loop for one item of the script
lex_step(r, item) ==
    LET ins == instructions_minimal(item)
    IN IF ins.kind = "Err" THEN RetErr([type |-> "Script", e |-> ins.e])
       ELSE IF ins.c.t = "Op" THEN lex_op(r, ins.c.op)
       ELSE lex_push(r, ins.c.v)

\* byte strings pushed by the scripts that are lexed
Hash20Bytes == Rep(187, 20)
BadKey33Bytes == <<5>> \o Rep(17, 32)
Key65Bytes == <<4>> \o Rep(17, 64)
HybridKey65Bytes == <<6>> \o Rep(17, 64)
BadKey65Bytes == <<9>> \o Rep(17, 64)

\* pushes of at most 5 bytes: numbers minimal and not, negative numbers,
\* negative zeros, one-byte pushes that have an opcode, over-long numbers
\* (four-byte pushes keep their last byte below 128, so that their u32
\* value stays within the integers of the model checker)
ShortPushes ==
    { <<>>, <<0>>, <<5>>, <<16>>, <<17>>, <<127>>, <<128>>, <<129>>, <<255>>,
      <<5, 0>>, <<0, 0>>, <<0, 128>>, <<255, 0>>, <<128, 0>>, <<255, 127>>,
      <<5, 128>>, <<0, 1>>,
      <<5, 0, 0>>, <<0, 0, 1>>, <<0, 128, 0>>, <<0, 0, 128>>, <<1, 2, 131>>,
      <<5, 0, 0, 0>>, <<0, 0, 0, 1>>, <<1, 2, 3, 4>>, <<0, 0, 128, 0>>,
      <<1, 0, 0, 0, 0>>, <<1, 2, 3, 4, 5>> }

\* every item a script is made of
AllItems ==
    { OpItem(op) : op \in DOMAIN OpToken \cup DOMAIN VerifyOpToken
                          \cup DOMAIN PushNumValue \cup OtherOps
                          \cup {"OP_CAT", "OP_VERIFY"} }
    \cup { PushItem(v) : v \in ShortPushes \cup
              { Hash20Bytes, Rep(187, 21), Pre31, Pre32, Pre33, Key1Bytes,
                Key2Bytes, BadKey33Bytes, Key65Bytes, HybridKey65Bytes,
                BadKey65Bytes } }
    \cup { TruncatedItem }

\* the items that set the context of the last one
CtxItems ==
    { OpItem(op) : op \in {"OP_PICK", "OP_SWAP", "OP_EQUAL", "OP_CHECKSIG",
                           "OP_CHECKMULTISIG", "OP_PUSHNUM_2"} }
    \cup { PushItem(v) : v \in {Hash20Bytes, Pre32, Key1Bytes, <<17>>} }

\* the scripts handed to lex
Scripts ==
    { ctx \o tl :
        ctx \in UNION { [1..n -> CtxItems] : n \in 0..MaxCtx },
        tl \in {<<>>} \cup { <<i>> : i \in AllItems } }

Lexing == lexres.kind = "Running" /\ pc <= Len(script)

\* one turn of the loop on an opcode
LexOp ==
    /\ Lexing
    /\ instructions_minimal(script[pc]).kind = "Ok"
    /\ script[pc].t = "Op"
    /\ LET r == lex_step(ret, script[pc])
       IN /\ ret' = IF r.kind = "Ok" THEN r.c ELSE ret
          /\ lexres' = IF r.kind = "Ok" THEN lexres ELSE r
    /\ pret' = ret
    /\ pc' = pc + 1
    /\ UNCHANGED <<stack, prev, call, result, drv, sh, script>>

\* one turn of the loop on a data push
LexPushBytes ==
    /\ Lexing
    /\ instructions_minimal(script[pc]).kind = "Ok"
    /\ script[pc].t = "PushBytes"
    /\ LET r == lex_step(ret, script[pc])
       IN /\ ret' = IF r.kind = "Ok" THEN r.c ELSE ret
          /\ lexres' = IF r.kind = "Ok" THEN lexres ELSE r
    /\ pret' = ret
    /\ pc' = pc + 1
    /\ UNCHANGED <<stack, prev, call, result, drv, sh, script>>

\* one turn of the loop on an item the iterator rejects
LexScriptError ==
    /\ Lexing
    /\ instructions_minimal(script[pc]).kind = "Err"
    /\ lexres' = lex_step(ret, script[pc])
    /\ pret' = ret
    /\ pc' = pc + 1
    /\ UNCHANGED <<stack, prev, call, result, drv, sh, script, ret>>

\* the end of the script: Ok(ret)
LexReturn ==
    /\ lexres.kind = "Running"
    /\ pc > Len(script)
    /\ lexres' = RetOk(ret)
    /\ UNCHANGED <<stack, prev, call, result, drv, sh, script, pc, ret, pret>>

InitLex ==
    /\ stack = <<>>
    /\ prev = <<>>
    /\ call = [op |-> "lex"]
    /\ result = [kind |-> "Unit"]
    /\ DrvIdle
    /\ ShIdle
    /\ script \in Scripts
    /\ pc = 1
    /\ ret = <<>>
    /\ pret = <<>>
    /\ lexres = [kind |-> "Running"]

NextLex ==
    \/ LexOp
    \/ LexPushBytes
    \/ LexScriptError
    \/ LexReturn

SpecLex == InitLex /\ [][NextLex]_vars

----------------------------------------------------------------------------
(* Re-encoding a token sequence into the items of a script *)

\* the opcode of a plain token
OpOfToken(name) ==
    IF name = "Cat" THEN "OP_CAT"
    ELSE IF name = "Verify" THEN "OP_VERIFY"
    ELSE CHOOSE op \in DOMAIN OpToken : OpToken[op] = name

\* the shortest item that pushes the bytes b: the empty push, a
\* small-number opcode, or a data push
MinimalPush(b) ==
    IF Len(b) = 1 /\ b[1] >= 1 /\ b[1] <= 16
        THEN OpItem(CHOOSE op \in DOMAIN PushNumValue : PushNumValue[op] = b[1])
    ELSE IF b = <<129>> THEN OpItem("OP_PUSHNUM_NEG1")
    ELSE PushItem(b)

\* the four little-endian bytes of a u32
u32_to_le(n) ==
    << n % 256, (n \div 256) % 256, (n \div 65536) % 256, (n \div 16777216) % 256 >>

\* the items of one token
TokenItems(x) ==
    IF x.t = "Num" THEN << MinimalPush(build_scriptint(x.n)) >>
    ELSE IF x.t = "Hash20" \/ x.t = "Hash32" THEN << PushItem(x.v) >>
    ELSE IF x.t = "Pubkey" THEN << PushItem(to_bytes(x.pk)) >>
    ELSE IF x.t = "Push" THEN << MinimalPush(x.v) >>
    ELSE IF x.t = "PickPush4" THEN << OpItem("OP_PICK"), PushItem(u32_to_le(x.n)) >>
    ELSE IF x.t = "PickPush32" \/ x.t = "PickPush"
        THEN << OpItem("OP_PICK"), PushItem(x.v) >>
    ELSE << OpItem(OpOfToken(x.t)) >>

\* the items of a token sequence: Equal, CheckSig or CheckMultiSig followed
\* by Verify become the verify-suffixed opcode
RECURSIVE ReEncode(_)
ReEncode(ts) ==
    IF Len(ts) = 0 THEN <<>>
    ELSE IF Len(ts) >= 2 /\ ts[1].t \in {"Equal", "CheckSig", "CheckMultiSig"}
              /\ ts[2].t = "Verify"
        THEN << OpItem(CHOOSE op \in DOMAIN VerifyOpToken :
                           VerifyOpToken[op] = ts[1].t) >>
             \o ReEncode(Tail(Tail(ts)))
    ELSE TokenItems(ts[1]) \o ReEncode(Tail(ts))

----------------------------------------------------------------------------
(* TokenIter: the lexed tokens, consumed from the back.  The vector of *)
(* the iterator is ret; pret is the vector before the last call        *)

\* the longest token vector an iterator is made of
MaxIter == 3

\* Option values
Some(x) == [kind |-> "Some", c |-> x]

\* the tokens the iterators hold
IterTokens ==
    { Tok("Dup"), Tok("Verify"), Num(2), Hash20(Hash20Bytes), TokPush(<<255>>) }

\* each method gives the vector afterwards and the value returned

\* TokenIter::peek
TokenIter_peek(v) ==
    [iter |-> v, out |-> IF Len(v) = 0 THEN RetNone ELSE Some(v[Len(v)])]

\* variant: next takes the first token of the vector
TokenIter_next_front(v) ==
    IF Len(v) = 0 THEN [iter |-> v, out |-> RetNone]
    ELSE [iter |-> Tail(v), out |-> Some(Head(v))]

\* impl Iterator for TokenIter: next
TokenIter_next(v) ==
    IF Len(v) = 0 THEN [iter |-> v, out |-> RetNone]
    ELSE [iter |-> SubSeq(v, 1, Len(v) - 1), out |-> Some(v[Len(v)])]

\* TokenIter::un_next
TokenIter_un_next(v, tok) == [iter |-> Append(v, tok), out |-> [kind |-> "Unit"]]

\* TokenIter::len
TokenIter_len(v) == [iter |-> v, out |-> Len(v)]

\* TokenIter::peek_slice
TokenIter_peek_slice(v, n) ==
    IF n <= Len(v) THEN [iter |-> v, out |-> Some(SubSeq(v, Len(v) - n + 1, Len(v)))]
    ELSE [iter |-> v, out |-> RetNone]

\* the loop of advance: next, n times
RECURSIVE next_times(_, _)
next_times(v, n) == IF n = 0 THEN v ELSE next_times(TokenIter_next(v).iter, n - 1)

\* variant: advance consumes what there is when n exceeds the length
TokenIter_advance_partial(v, n) ==
    IF n <= Len(v) THEN [iter |-> next_times(v, n), out |-> Some([kind |-> "Unit"])]
    ELSE [iter |-> <<>>, out |-> RetNone]

\* TokenIter::advance
TokenIter_advance(v, n) ==
    IF n <= Len(v) THEN [iter |-> next_times(v, n), out |-> Some([kind |-> "Unit"])]
    ELSE [iter |-> v, out |-> RetNone]

iterFrame == <<stack, prev, drv, sh, script, pc, lexres>>

IterPeek ==
    LET r == TokenIter_peek(ret)
    IN /\ ret' = r.iter
       /\ result' = r.out
       /\ pret' = ret
       /\ call' = [op |-> "peek"]
       /\ UNCHANGED iterFrame

\* next also records the call before it and the vector before that call
IterNext ==
    LET r == TokenIter_next(ret)
    IN /\ ret' = r.iter
       /\ result' = r.out
       /\ pret' = ret
       /\ call' = [op |-> "next", after |-> call.op,
                   tok |-> IF call.op = "un_next" THEN call.tok ELSE Tok("none"),
                   before |-> pret]
       /\ UNCHANGED iterFrame

IterUnNext ==
    /\ Len(ret) <= MaxIter
    /\ \E tok \in IterTokens :
        LET r == TokenIter_un_next(ret, tok)
        IN /\ ret' = r.iter
           /\ result' = r.out
           /\ pret' = ret
           /\ call' = [op |-> "un_next", tok |-> tok]
           /\ UNCHANGED iterFrame

IterLen ==
    LET r == TokenIter_len(ret)
    IN /\ ret' = r.iter
       /\ result' = r.out
       /\ pret' = ret
       /\ call' = [op |-> "len"]
       /\ UNCHANGED iterFrame

IterPeekSlice ==
    \E n \in 0..(MaxIter + 2) :
        LET r == TokenIter_peek_slice(ret, n)
        IN /\ ret' = r.iter
           /\ result' = r.out
           /\ pret' = ret
           /\ call' = [op |-> "peek_slice", n |-> n]
           /\ UNCHANGED iterFrame

IterAdvance ==
    \E n \in 0..(MaxIter + 2) :
        LET r == TokenIter_advance(ret, n)
        IN /\ ret' = r.iter
           /\ result' = r.out
           /\ pret' = ret
           /\ call' = [op |-> "advance", n |-> n]
           /\ UNCHANGED iterFrame

\* TokenIter::new
InitIter ==
    /\ stack = <<>>
    /\ prev = <<>>
    /\ DrvIdle
    /\ ShIdle
    /\ script = <<>>
    /\ pc = 1
    /\ lexres = [kind |-> "Idle"]
    /\ ret \in UNION { [1..n -> IterTokens] : n \in 0..MaxIter }
    /\ pret = ret
    /\ call = [op |-> "new"]
    /\ result = [kind |-> "Unit"]

NextIter ==
    \/ IterPeek
    \/ IterNext
    \/ IterUnNext
    \/ IterLen
    \/ IterPeekSlice
    \/ IterAdvance

SpecIter == InitIter /\ [][NextIter]_vars

----------------------------------------------------------------------------
(* An evaluation that mixes the evaluators of the fragments and of the
   covenants, on the stacks of both *)

\* deep stacks: the covenant slots filled, and a signature, a preimage or
\* a witness element on top
EvalStacks ==
    UNION { { WithSlot(s1, OutputsSlot, c) : c \in OutputsElems(s1) } :
        s1 \in { WithSlot([i \in 1..n |-> IF i = n THEN t ELSE Filler(i)], VerSlot, v) :
                    n \in {VerSlot + 1, VerSlot + 2},
                    v \in {Push(<<1, 2, 0, 0>>), Push(<<2, 1, 0, 0>>), Dissatisfied},
                    t \in {Push(Sig1Bytes), Push(Pre32), Filler(0)} } }

InitEval ==
    /\ stack \in StacksUpTo(MaxInit) \cup EvalStacks
    /\ prev = stack
    /\ call = [op |-> "new"]
    /\ result = [kind |-> "Unit"]
    /\ DrvIdle
    /\ ShIdle
    /\ LexIdle

NextEval ==
    \/ EvaluatePk
    \/ EvaluatePkh
    \/ EvaluateAfter
    \/ EvaluateOlder
    \/ EvaluateSha256
    \/ EvaluateHash256
    \/ EvaluateHash160
    \/ EvaluateRipemd160
    \/ EvaluateVer
    \/ EvaluateOutputsPref

SpecEval == InitEval /\ [][NextEval]_vars

----------------------------------------------------------------------------
(* The Sh descriptor: scripts as byte strings, and the inner descriptors *)

\* the n bytes of a digest
digest(h, n) == SubSeq(as_inner(h), 33 - n, 32)

\* script::Builder::push_slice: the push opcode, then the data
push_slice(data) ==
    IF Len(data) < 76 THEN <<Len(data)>> \o data
    ELSE IF Len(data) < 256 THEN <<76, Len(data)>> \o data
    ELSE <<77, Len(data) % 256, Len(data) \div 256>> \o data

\* Script::to_p2sh: OP_HASH160 <hash160 of the script> OP_EQUAL
to_p2sh(scr) == <<169, 20>> \o digest(hash160_hash(scr), 20) \o <<135>>

\* Script::to_v0_p2wsh: OP_0 <sha256 of the script>
to_v0_p2wsh(scr) == <<0, 32>> \o digest(sha256_hash(scr), 32)

\* bitcoin::Address::p2sh
Address_p2sh(scr, network) ==
    [payload |-> "ScriptHash", hash |-> digest(hash160_hash(scr), 20),
     network |-> network]

\* util::witness_to_scriptsig: every element pushed in order, each by the
\* shortest push of its bytes
push_element(e) ==
    IF Len(e) = 0 THEN <<0>>
    ELSE IF Len(e) = 1 /\ e[1] >= 1 /\ e[1] <= 16 THEN <<80 + e[1]>>
    ELSE IF e = <<129>> THEN <<79>>
    ELSE push_slice(e)
RECURSIVE witness_to_scriptsig(_)
witness_to_scriptsig(witness) ==
    IF Len(witness) = 0 THEN <<>>
    ELSE push_element(Head(witness)) \o witness_to_scriptsig(Tail(witness))

\* push_opcode_size
push_opcode_size(script_size) ==
    IF script_size < 76 THEN 1
    ELSE IF script_size < 256 THEN 2
    ELSE IF script_size < 65536 THEN 3
    ELSE 5

\* util::varint_len
varint_len(n) ==
    IF n <= 252 THEN 1
    ELSE IF n <= 65535 THEN 3
    ELSE 5

\* the inner descriptors.  An Sh value is a record: its variant; script, the
\* encoded inner script (Ms, SortedMulti) or the witness script (Wsh); pk,
\* the key of a Wpkh; sats, the satisfactions a satisfier can find for the
\* inner script; maxsat, the size (Ms, SortedMulti) or the weight (Wsh,
\* Wpkh) the inner descriptor gives as the maximum of a satisfaction

\* Wsh::script_pubkey and Wpkh::script_pubkey
inner_script_pubkey(d) ==
    IF d.variant = "Wsh" THEN to_v0_p2wsh(d.script)
    ELSE <<0, 20>> \o digest(hash160_hash(to_bytes(d.pk)), 20)

\* Wsh::witness_script
inner_witness_script(d) == d.script

\* SortedMultiVec::encode and Miniscript::encode
encode(d) == d.script

\* SortedMultiVec::script_size and Miniscript::script_size
script_size(d) == Len(d.script)

\* Wsh::get_satisfaction and Wpkh::get_satisfaction with the stack sat the
\* satisfier found: the witness, and an empty script_sig
inner_get_satisfaction(d, sat) ==
    IF sat.kind = "Err" THEN sat
    ELSE IF d.variant = "Wsh"
        THEN RetOk([witness |-> Append(sat.c, d.script), script_sig |-> <<>>])
    ELSE RetOk([witness |-> sat.c, script_sig |-> <<>>])

\* the bytes a satisfaction takes in a script_sig
sat_size(sat) == Len(witness_to_scriptsig(sat))

\* the byte strings of satisfactions
ShSig == Rep(48, 72)
SatSets ==
    { {},
      { <<ShSig>> },
      { << <<>>, ShSig, ShSig >> },
      { << ShSig, <<1>> >>, << Pre32, <<>> >> } }

\* max_satisfaction_size of the inner script: the largest satisfaction
MaxSatSize(sats) ==
    IF sats = {} THEN RetNone
    ELSE Some(CHOOSE n \in { sat_size(x) : x \in sats } :
                  \A x \in sats : sat_size(x) <= n)

\* the lengths of the inner scripts: around the push opcodes of 76 and 256
\* bytes, and around a script_sig of 253 bytes
ShScriptSizes == {25, 75, 76, 103, 104, 255, 256}

\* the weights an inner Wsh or Wpkh gives
InnerWeights == { RetNone, Some(108), Some(400) }

\* the keys and key hashes of the inner descriptor, in the order its
\* translate_pk visits them: occ, a sequence of occurrences
PkOcc(k) == [kind |-> "pk", v |-> k]
PkhOcc(h) == [kind |-> "pkh", v |-> h]
KeyOccs == { <<PkOcc("A")>>, <<PkOcc("A"), PkOcc("B")>> }
MsOccs ==
    KeyOccs \cup { <<PkhOcc("hA"), PkOcc("B")>>, <<PkOcc("A"), PkhOcc("hB")>> }

\* the Sh values
ShDescs ==
    { [variant |-> "Ms", script |-> Rep(172, n), pk |-> Pk1, sats |-> sats,
       maxsat |-> MaxSatSize(sats), occ |-> occ] :
          n \in ShScriptSizes, sats \in SatSets, occ \in MsOccs }
    \cup { [variant |-> "SortedMulti", script |-> Rep(172, n), pk |-> Pk1,
            sats |-> sats, maxsat |-> MaxSatSize(sats), occ |-> occ] :
               n \in ShScriptSizes, sats \in SatSets \ {{}}, occ \in KeyOccs }
    \cup { [variant |-> "Wsh", script |-> Rep(172, n), pk |-> Pk1, sats |-> sats,
            maxsat |-> w, occ |-> occ] :
               n \in ShScriptSizes, sats \in SatSets, w \in InnerWeights,
               occ \in MsOccs }
    \cup { [variant |-> "Wpkh", script |-> <<>>, pk |-> pk,
            sats |-> { <<ShSig, to_bytes(pk)>> }, maxsat |-> w,
            occ |-> <<PkOcc(IF pk = Pk1 THEN "A" ELSE "B")>>] :
               pk \in {Pk1, Pk2}, w \in InnerWeights }

\* Sh::script_pubkey
script_pubkey(d) ==
    IF d.variant \in {"Wsh", "Wpkh"} THEN to_p2sh(inner_script_pubkey(d))
    ELSE to_p2sh(encode(d))

\* Sh::address
address(d, network) ==
    IF d.variant \in {"Wsh", "Wpkh"}
        THEN Some(Address_p2sh(inner_script_pubkey(d), network))
    ELSE Some(Address_p2sh(encode(d), network))

\* variant: the witness script itself is pushed for a Wsh
unsigned_script_sig_raw_witness_script(d) ==
    IF d.variant = "Wsh" THEN push_slice(inner_witness_script(d))
    ELSE IF d.variant = "Wpkh" THEN push_slice(inner_script_pubkey(d))
    ELSE <<>>

\* Sh::unsigned_script_sig
unsigned_script_sig(d) ==
    IF d.variant = "Wsh" THEN push_slice(to_v0_p2wsh(inner_witness_script(d)))
    ELSE IF d.variant = "Wpkh" THEN push_slice(inner_script_pubkey(d))
    ELSE <<>>

\* variant: the inner script is not appended to the satisfaction
get_satisfaction_without_script(d, sat) ==
    LET script_sig == unsigned_script_sig(d)
    IN IF d.variant \in {"Wsh", "Wpkh"} THEN
           LET inner == inner_get_satisfaction(d, sat)
           IN IF inner.kind = "Err" THEN inner
              ELSE RetOk([witness |-> inner.c.witness, script_sig |-> script_sig])
       ELSE IF sat.kind = "Err" THEN sat
       ELSE RetOk([witness |-> <<>>, script_sig |-> witness_to_scriptsig(sat.c)])

\* Sh::get_satisfaction, sat being what the satisfier gives for the inner
\* script: a stack, or an error
get_satisfaction(d, sat) ==
    LET script_sig == unsigned_script_sig(d)
    IN IF d.variant \in {"Wsh", "Wpkh"} THEN
           LET inner == inner_get_satisfaction(d, sat)
           IN IF inner.kind = "Err" THEN inner
              ELSE RetOk([witness |-> inner.c.witness, script_sig |-> script_sig])
       ELSE IF sat.kind = "Err" THEN sat
       ELSE LET script_witness == Append(sat.c, encode(d))
            IN RetOk([witness |-> <<>>,
                      script_sig |-> witness_to_scriptsig(script_witness)])

\* variant: the push of the inner script is counted as one opcode byte
max_satisfaction_weight_one_byte_push(d) ==
    IF d.maxsat.kind = "None" /\ d.variant # "SortedMulti" THEN RetNone
    ELSE IF d.variant = "Wsh" THEN Some(4 * 35 + d.maxsat.c)
    ELSE IF d.variant = "Wpkh" THEN Some(4 * 23 + d.maxsat.c)
    ELSE LET ss == script_size(d)
             scriptsig_len == 1 + ss + d.maxsat.c
         IN Some(4 * (varint_len(scriptsig_len) + scriptsig_len))

\* variant: the redeem script is counted without its push opcode
max_satisfaction_weight_no_push_opcode(d) ==
    IF d.maxsat.kind = "None" /\ d.variant # "SortedMulti" THEN RetNone
    ELSE IF d.variant = "Wsh" THEN Some(4 * 34 + d.maxsat.c)
    ELSE IF d.variant = "Wpkh" THEN Some(4 * 22 + d.maxsat.c)
    ELSE LET ss == script_size(d)
             ps == push_opcode_size(ss)
             scriptsig_len == ps + ss + d.maxsat.c
         IN Some(4 * (varint_len(scriptsig_len) + scriptsig_len))

\* Sh::max_satisfaction_weight
max_satisfaction_weight(d) ==
    IF d.maxsat.kind = "None" /\ d.variant # "SortedMulti" THEN RetNone
    ELSE IF d.variant = "Wsh" THEN Some(4 * 35 + d.maxsat.c)
    ELSE IF d.variant = "Wpkh" THEN Some(4 * 23 + d.maxsat.c)
    ELSE LET ss == script_size(d)
             ps == push_opcode_size(ss)
             scriptsig_len == ps + ss + d.maxsat.c
         IN Some(4 * (varint_len(scriptsig_len) + scriptsig_len))

\* Wsh::script_code, the witness script, and Wpkh::script_code, the
\* pay-to-pubkey-hash script of the key:
\* OP_DUP OP_HASH160 <hash160 of the key> OP_EQUALVERIFY OP_CHECKSIG
inner_script_code(d) ==
    IF d.variant = "Wsh" THEN inner_witness_script(d)
    ELSE <<118, 169, 20>> \o digest(hash160_hash(to_bytes(d.pk)), 20)
             \o <<136, 172>>

\* Sh::witness_script
witness_script(d) ==
    IF d.variant = "Wsh" THEN inner_witness_script(d)
    ELSE IF d.variant = "Wpkh" THEN inner_script_pubkey(d)
    ELSE encode(d)

\* variant: the locking script is returned for the inline variants
script_code_locking_script(d) ==
    IF d.variant \in {"Wsh", "Wpkh"} THEN inner_script_code(d)
    ELSE to_p2sh(encode(d))

\* Sh::script_code
script_code(d) ==
    IF d.variant \in {"Wsh", "Wpkh"} THEN inner_script_code(d)
    ELSE encode(d)

\* translate_pk of the inner descriptor: the conversions are called on the
\* occurrences in order, translatefpk on a key and translatefpkh on a key
\* hash, and the first error ends the translation.  calls are the
\* occurrences the conversions were called on.
RECURSIVE inner_translate_pk(_, _, _)
inner_translate_pk(occ, translatefpk, translatefpkh) ==
    IF Len(occ) = 0 THEN [res |-> RetOk(<<>>), calls |-> <<>>]
    ELSE LET o == Head(occ)
             r == IF o.kind = "pk" THEN translatefpk[o.v] ELSE translatefpkh[o.v]
         IN IF r.kind = "Err" THEN [res |-> r, calls |-> <<o>>]
            ELSE LET t == inner_translate_pk(Tail(occ), translatefpk, translatefpkh)
                 IN [res |-> IF t.res.kind = "Err" THEN t.res
                             ELSE RetOk(<<[kind |-> o.kind, v |-> r.c]>> \o t.res.c),
                     calls |-> <<o>> \o t.calls]

\* variant: the translated inner descriptor is wrapped as an Ms
translate_pk_as_ms(d, translatefpk, translatefpkh) ==
    LET t == inner_translate_pk(d.occ, translatefpk, translatefpkh)
    IN IF t.res.kind = "Err" THEN t
       ELSE [res |-> RetOk([variant |-> "Ms", occ |-> t.res.c]),
             calls |-> t.calls]

\* Sh::translate_pk: the new Sh is given by its variant and its keys
translate_pk(d, translatefpk, translatefpkh) ==
    LET t == inner_translate_pk(d.occ, translatefpk, translatefpkh)
    IN IF t.res.kind = "Err" THEN t
       ELSE [res |-> RetOk([variant |-> d.variant, occ |-> t.res.c]),
             calls |-> t.calls]

\* the conversions a caller supplies
Translatefpks ==
    { [k \in {"A", "B"} |-> RetOk("Q" \o k)],
      [k \in {"A", "B"} |-> IF k = "B" THEN RetErr(Err("BadKeyB")) ELSE RetOk("Q" \o k)],
      [k \in {"A", "B"} |-> RetErr(Err("BadKey" \o k))] }
Translatefpkhs ==
    { [h \in {"hA", "hB"} |-> RetOk("Q" \o h)],
      [h \in {"hA", "hB"} |-> RetErr(Err("BadHash" \o h))] }

\* what a satisfier can give for the inner script of d
SatisfierErrors == { Err("MissingSig"), Err("CouldNotSatisfy") }
SatisfierOutcomes(d) ==
    { RetOk(x) : x \in d.sats } \cup { RetErr(e) : e \in SatisfierErrors }

Networks == {"bitcoin", "testnet"}

shFrame == <<stack, prev, drv, lexVars, sh>>

ShScriptPubkey ==
    /\ sh.variant # "none"
    /\ call' = [op |-> "script_pubkey"]
    /\ result' = script_pubkey(sh)
    /\ UNCHANGED shFrame

ShAddress ==
    /\ sh.variant # "none"
    /\ \E network \in Networks :
        /\ call' = [op |-> "address", network |-> network]
        /\ result' = address(sh, network)
    /\ UNCHANGED shFrame

ShUnsignedScriptSig ==
    /\ sh.variant # "none"
    /\ call' = [op |-> "unsigned_script_sig"]
    /\ result' = unsigned_script_sig(sh)
    /\ UNCHANGED shFrame

ShGetSatisfaction ==
    /\ sh.variant # "none"
    /\ \E sat \in SatisfierOutcomes(sh) :
        /\ call' = [op |-> "get_satisfaction", sat |-> sat]
        /\ result' = get_satisfaction(sh, sat)
    /\ UNCHANGED shFrame

ShMaxSatisfactionWeight ==
    /\ sh.variant # "none"
    /\ call' = [op |-> "max_satisfaction_weight"]
    /\ result' = max_satisfaction_weight(sh)
    /\ UNCHANGED shFrame

ShWitnessScript ==
    /\ sh.variant # "none"
    /\ call' = [op |-> "witness_script"]
    /\ result' = witness_script(sh)
    /\ UNCHANGED shFrame

ShScriptCode ==
    /\ sh.variant # "none"
    /\ call' = [op |-> "script_code"]
    /\ result' = script_code(sh)
    /\ UNCHANGED shFrame

ShTranslatePk ==
    /\ sh.variant # "none"
    /\ \E translatefpk \in Translatefpks, translatefpkh \in Translatefpkhs :
        LET t == translate_pk(sh, translatefpk, translatefpkh)
        IN /\ call' = [op |-> "translate_pk", translatefpk |-> translatefpk,
                       translatefpkh |-> translatefpkh, calls |-> t.calls]
           /\ result' = t.res
    /\ UNCHANGED shFrame

InitSh ==
    /\ stack = <<>>
    /\ prev = <<>>
    /\ call = [op |-> "init"]
    /\ result = RetNone
    /\ DrvIdle
    /\ LexIdle
    /\ sh \in ShDescs

NextSh ==
    \/ ShScriptPubkey
    \/ ShAddress
    \/ ShUnsignedScriptSig
    \/ ShGetSatisfaction
    \/ ShMaxSatisfactionWeight
    \/ ShWitnessScript
    \/ ShScriptCode
    \/ ShTranslatePk

SpecSh == InitSh /\ [][NextSh]_vars

----------------------------------------------------------------------------
(* The constructors of Sh.  A built Sh is given by its variant and the inner
   value it wraps; an inner value is given by its script, a Miniscript also
   by top, what Legacy::top_level_checks returns for it. *)

InnerScripts == { Rep(172, 25), Rep(172, 76) }
MsValues ==
    { [script |-> x, top |-> t] :
          x \in InnerScripts, t \in {RetOk("unit"), RetErr(Err("ContextError"))} }

\* Legacy::top_level_checks
top_level_checks(ms) == ms.top

\* expression trees: a name and arguments, an argument carrying parsed, what
\* the from_tree of the inner type returns for it
ArgTrees ==
    { [name |-> n, parsed |-> r] :
          n \in {"wsh", "wpkh", "sortedmulti"},
          r \in { RetOk([script |-> x]) : x \in InnerScripts }
                   \cup { RetErr(Err("InnerParse")) } }
    \cup { [name |-> n, parsed |-> r] :
               n \in {"pk", "multi"},
               r \in { RetOk(m) : m \in MsValues } \cup { RetErr(Err("InnerParse")) } }
SecondArg == [name |-> "pk", parsed |-> RetErr(Err("InnerParse"))]
Trees ==
    { [name |-> n, args |-> a] :
          n \in {"sh", "wsh"},
          a \in { <<>> } \cup { <<t>> : t \in ArgTrees }
                   \cup { <<t, SecondArg>> : t \in ArgTrees } }

\* the from_tree of the inner types
inner_from_tree(top) == top.parsed

\* variant: Sh::new without the top-level checks
Sh_new_unchecked(ms) == RetOk([variant |-> "Ms", inner |-> ms])

\* Sh::new
Sh_new(ms) ==
    IF top_level_checks(ms).kind = "Err" THEN top_level_checks(ms)
    ELSE RetOk([variant |-> "Ms", inner |-> ms])

\* variant: from_tree without the top-level checks
from_tree_unchecked(tree) ==
    IF tree.name = "sh" /\ Len(tree.args) = 1 THEN
        LET top == tree.args[1]
            sub == inner_from_tree(top)
        IN IF sub.kind = "Err" THEN sub
           ELSE IF top.name = "wsh" THEN RetOk([variant |-> "Wsh", inner |-> sub.c])
           ELSE IF top.name = "wpkh" THEN RetOk([variant |-> "Wpkh", inner |-> sub.c])
           ELSE IF top.name = "sortedmulti"
               THEN RetOk([variant |-> "SortedMulti", inner |-> sub.c])
           ELSE RetOk([variant |-> "Ms", inner |-> sub.c])
    ELSE RetErr([type |-> "Unexpected", name |-> tree.name,
                 nargs |-> Len(tree.args)])

\* Sh::from_tree
from_tree(tree) ==
    IF tree.name = "sh" /\ Len(tree.args) = 1 THEN
        LET top == tree.args[1]
            sub == inner_from_tree(top)
        IN IF sub.kind = "Err" THEN sub
           ELSE IF top.name = "wsh" THEN RetOk([variant |-> "Wsh", inner |-> sub.c])
           ELSE IF top.name = "wpkh" THEN RetOk([variant |-> "Wpkh", inner |-> sub.c])
           ELSE IF top.name = "sortedmulti"
               THEN RetOk([variant |-> "SortedMulti", inner |-> sub.c])
           ELSE IF top_level_checks(sub.c).kind = "Err" THEN top_level_checks(sub.c)
           ELSE RetOk([variant |-> "Ms", inner |-> sub.c])
    ELSE RetErr([type |-> "Unexpected", name |-> tree.name,
                 nargs |-> Len(tree.args)])

\* descriptor strings: whether a checksum follows the body and matches it,
\* and tree, what expression::Tree::from_str returns for the body
Strs ==
    { [checksum |-> c, tree |-> r] :
          c \in {"absent", "match", "mismatch"},
          r \in { RetOk(t) : t \in Trees } \cup { RetErr(Err("TreeParse")) } }

\* verify_checksum: the body, or the error of a checksum that does not match
verify_checksum(s) ==
    IF s.checksum = "mismatch" THEN RetErr(Err("BadDescriptor"))
    ELSE RetOk(s.tree)

\* variant: the body is parsed before the checksum is verified
from_str_parse_first(s) ==
    IF s.tree.kind = "Err" THEN s.tree
    ELSE IF verify_checksum(s).kind = "Err" THEN verify_checksum(s)
    ELSE from_tree(s.tree.c)

\* Sh::from_str
from_str(s) ==
    LET desc_str == verify_checksum(s)
    IN IF desc_str.kind = "Err" THEN desc_str
       ELSE LET top == desc_str.c
            IN IF top.kind = "Err" THEN top
               ELSE from_tree(top.c)

\* the Sh a constructor built, none when it returned an error
Built(r) == IF r.kind = "Ok" THEN r.c ELSE [variant |-> "none"]

newFrame == <<stack, prev, drv, lexVars>>

ShNew ==
    \E ms \in MsValues :
        /\ call' = [op |-> "new", ms |-> ms]
        /\ result' = Sh_new(ms)
        /\ sh' = Built(Sh_new(ms))
        /\ UNCHANGED newFrame

ShFromTree ==
    \E tree \in Trees :
        /\ call' = [op |-> "from_tree", tree |-> tree]
        /\ result' = from_tree(tree)
        /\ sh' = Built(from_tree(tree))
        /\ UNCHANGED newFrame

ShFromStr ==
    \E s \in Strs :
        /\ call' = [op |-> "from_str", s |-> s]
        /\ result' = from_str(s)
        /\ sh' = Built(from_str(s))
        /\ UNCHANGED newFrame

InitNew ==
    /\ stack = <<>>
    /\ prev = <<>>
    /\ call = [op |-> "init"]
    /\ result = RetNone
    /\ DrvIdle
    /\ LexIdle
    /\ ShIdle

NextNew ==
    \/ ShNew
    \/ ShFromTree
    \/ ShFromStr

SpecNew == InitNew /\ [][NextNew]_vars

----------------------------------------------------------------------------
(* Properties *)

ReplaceTop(s, e) == [s EXCEPT ![Len(s)] = e]

\* C1 (SpecBuild): Element::from, and from_instruction on a PushBytes, give
\* Satisfied exactly for [0x01], Dissatisfied exactly for the empty string
\* and Push(bytes) for every other string, [0x00] included; from_instruction
\* maps OP_PUSHNUM_1 to Satisfied and every other non-push instruction or
\* decode error to Err(ExpectedPush).
C1_Trichotomy(v, e) ==
    /\ (e = Satisfied) <=> (v = <<1>>)
    /\ (e = Dissatisfied) <=> (v = <<>>)
    /\ (v # <<1>> /\ v # <<>>) => (e.tag = "Push" /\ e.bytes = v)

C1_ElementConversion ==
    /\ call.op = "from" => C1_Trichotomy(call.v, result.c)
    /\ call.op = "from_instruction" =>
         CASE call.ins.t = "PushBytes" ->
                  result.kind = "Ok" /\ C1_Trichotomy(call.ins.v, result.c)
           [] call.ins.t = "Op" /\ call.ins.op = "OP_PUSHNUM_1" ->
                  result.kind = "Ok" /\ result.c = Satisfied
           [] OTHER ->
                  result.kind = "Err" /\ result.e.type = "ExpectedPush"

C1_Witness ==
    /\ call.op = "from_instruction"
    /\ call.ins.t = "PushBytes"
    /\ call.ins.v = <<0>>
    /\ result = RetOk(Push(<<0>>))
    /\ Len(stack) >= 1

\* C2: evaluate_pk on a non-empty stack: a Dissatisfied top gives None and
\* the stack as it was; a Push top whose signature verifies against pk gives
\* Some(Ok(PublicKey{key: pk, sig})) and the stack with that top replaced by
\* Satisfied.
C2_PkSoftAndSuccess ==
    (call.op = "evaluate_pk" /\ Len(prev) > 0) =>
        /\ last(prev) = Dissatisfied =>
               (result.kind = "None" /\ stack = prev)
        /\ (last(prev).tag = "Push"
              /\ verify_sersig(call.pk, last(prev).bytes).kind = "Ok") =>
               /\ result.kind = "Ok"
               /\ result.c = [type |-> "PublicKey", key |-> call.pk,
                              sig |-> verify_sersig(call.pk, last(prev).bytes).c]
               /\ stack = ReplaceTop(prev, Satisfied)

C2_Witness ==
    /\ call.op = "evaluate_pk"
    /\ Len(prev) >= 2
    /\ last(prev) = Push(Sig1Bytes)
    /\ call.pk = Pk1
    /\ result.kind = "Ok"
    /\ last(stack) = Satisfied

\* C3: evaluate_pk never returns None or Some(Ok) for a malformed witness: a
\* Push that fails verification gives Some(Err), a Satisfied top gives
\* Some(Err(PkEvaluationError(pk))), an empty stack gives
\* Some(Err(UnexpectedStackEnd)); no marker is pushed in these cases.
C3_PkHardErrors ==
    call.op = "evaluate_pk" =>
        /\ Len(prev) = 0 =>
               /\ result.kind = "Err"
               /\ result.e.type = "UnexpectedStackEnd"
               /\ stack = <<>>
        /\ (Len(prev) > 0 /\ last(prev) = Satisfied) =>
               /\ result.kind = "Err"
               /\ result.e = [type |-> "PkEvaluationError", pk |-> call.pk]
               /\ stack = pop(prev)
        /\ (Len(prev) > 0 /\ last(prev).tag = "Push"
              /\ verify_sersig(call.pk, last(prev).bytes).kind # "Ok") =>
               /\ result.kind = "Err"
               /\ stack = pop(prev)

C3_Witness ==
    /\ call.op = "evaluate_pk"
    /\ Len(prev) >= 2
    /\ last(prev) = Push(Sig2Bytes)
    /\ call.pk = Pk1
    /\ result.kind = "Err"
    /\ result.e.type = "InvalidSignature"

\* C4: evaluate_pkh: a popped Push whose hash160 differs from the target key
\* hash gives Some(Err(PkHashVerifyFail(pkh))), whether or not the bytes
\* parse as a key and whatever the signature slot holds; the signature slot
\* is not popped.
C4_PkhHashMismatch ==
    (call.op = "evaluate_pkh" /\ Len(prev) > 0 /\ last(prev).tag = "Push"
       /\ hash160_hash(last(prev).bytes) # call.pkh) =>
        /\ result.kind = "Err"
        /\ result.e = [type |-> "PkHashVerifyFail", pkh |-> call.pkh]
        /\ stack = pop(prev)

C4_Witness ==
    /\ call.op = "evaluate_pkh"
    /\ Len(prev) >= 2
    /\ last(prev) = Push(Key1Bytes)
    /\ prev[Len(prev) - 1] = Push(Sig1Bytes)
    /\ call.pkh = hash160_hash(Pre33)
    /\ result.kind = "Err"
    /\ result.e.type = "PkHashVerifyFail"
    /\ last(stack) = Push(Sig1Bytes)

\* C5: evaluate_pkh, once the popped key bytes hash to the target and parse,
\* behaves on the remaining stack like evaluate_pk with that key: the same
\* stack, None for a Dissatisfied slot, a hard error for a Satisfied slot, an
\* invalid signature or an empty remainder, and on success a PublicKeyHash
\* constraint with the key hash, the key and the signature; a key that
\* hashes to the target and does not parse gives Some(Err(PubkeyParseError)).
C5_PkhLikePk ==
    (call.op = "evaluate_pkh" /\ Len(prev) > 0 /\ last(prev).tag = "Push"
       /\ hash160_hash(last(prev).bytes) = call.pkh) =>
        LET parsed == PublicKey_from_slice(last(prev).bytes)
            rest == pop(prev)
            r == evaluate_pk(rest, parsed.c)
        IN IF parsed.kind = "Ok" THEN
               /\ stack = r.stack
               /\ result.kind = r.res.kind
               /\ result.kind = "Err" => result.e = r.res.e
               /\ result.kind = "Ok" =>
                      result.c = [type |-> "PublicKeyHash",
                                  keyhash |-> call.pkh,
                                  key |-> parsed.c,
                                  sig |-> r.res.c.sig]
               /\ Len(rest) = 0 => result.kind = "Err"
               /\ (Len(rest) > 0 /\ last(rest) = Dissatisfied) =>
                      result.kind = "None"
               /\ (Len(rest) > 0 /\ last(rest) = Satisfied) =>
                      result.kind = "Err"
               /\ (Len(rest) > 0 /\ last(rest).tag = "Push") =>
                      (result.kind = "Ok" <=>
                           verify_sersig(parsed.c, last(rest).bytes).kind = "Ok")
                      /\ result.kind \in {"Ok", "Err"}
           ELSE /\ result.kind = "Err"
                /\ result.e.type = "PubkeyParseError"

C5_Witness ==
    /\ call.op = "evaluate_pkh"
    /\ Len(prev) = 3
    /\ last(prev) = Push(Key1Bytes)
    /\ prev[2] = Push(Sig1Bytes)
    /\ call.pkh = hash160_hash(Key1Bytes)
    /\ result.kind = "Ok"
    /\ result.c.type = "PublicKeyHash"
    /\ stack = << prev[1], Satisfied >>

\* C6: evaluate_after(n, age) and evaluate_older(n, height) pop nothing: with
\* the ambient value >= n they push exactly one Satisfied and return the
\* timelock constraint carrying n; with it < n they return the hard error
\* carrying n, never None, and leave the stack unchanged.  n = 500 fails with
\* ambient 499 and succeeds with ambient 500.
C6_Timelocks ==
    call.op \in {"evaluate_after", "evaluate_older"} =>
        LET abs == call.op = "evaluate_after"
        IN /\ call.ambient >= call.n =>
                  /\ stack = prev \o << Satisfied >>
                  /\ result = RetOk([type |-> IF abs THEN "AbsoluteTimeLock"
                                              ELSE "RelativeTimeLock",
                                     time |-> call.n])
           /\ call.ambient < call.n =>
                  /\ stack = prev
                  /\ result = RetErr([type |-> IF abs THEN "AbsoluteLocktimeNotMet"
                                               ELSE "RelativeLocktimeNotMet",
                                      n |-> call.n])
           /\ (call.n = 500 /\ call.ambient = 499) => result.kind = "Err"
           /\ (call.n = 500 /\ call.ambient = 500) => result.kind = "Ok"

C6_Witness ==
    /\ call.op = "evaluate_after"
    /\ call.n = 500
    /\ call.ambient = 500
    /\ Len(prev) >= 1
    /\ result.kind = "Ok"
    /\ Len(stack) = Len(prev) + 1

HashLockOps ==
    {"evaluate_sha256", "evaluate_hash256", "evaluate_hash160",
     "evaluate_ripemd160"}

\* C7: for each hash-lock evaluator a popped preimage whose length is not 32
\* (31 and 33 in particular) gives a hard error, never None or Some(Ok),
\* whatever the algorithm and whether or not the bytes hash to the target;
\* no marker is pushed.
C7_PreimageLength ==
    (call.op \in HashLockOps /\ Len(prev) > 0 /\ last(prev).tag = "Push"
       /\ Len(last(prev).bytes) # 32) =>
        /\ result.kind = "Err"
        /\ stack = pop(prev)

C7_Witness ==
    /\ call.op = "evaluate_ripemd160"
    /\ Len(prev) >= 2
    /\ last(prev) = Push(Pre31)
    /\ call.hash = ripemd160_hash(Pre31)
    /\ result.kind = "Err"

\* the hash an evaluator computes of a preimage, and the tag it reports
OwnHash(op, b) ==
    CASE op = "evaluate_sha256" -> sha256_hash(b)
      [] op = "evaluate_hash256" -> sha256d_hash(b)
      [] op = "evaluate_hash160" -> hash160_hash(b)
      [] op = "evaluate_ripemd160" -> ripemd160_hash(b)

OwnTag(op) ==
    CASE op = "evaluate_sha256" -> "Sha256"
      [] op = "evaluate_hash256" -> "Hash256"
      [] op = "evaluate_hash160" -> "Hash160"
      [] op = "evaluate_ripemd160" -> "Ripemd160"

\* C8: for each hash-lock evaluator a popped 32-byte preimage that hashes,
\* under the evaluator's own algorithm, to the target gives
\* Some(Ok(HashLock)) tagged with that algorithm and carrying the preimage,
\* the preimage replaced by Satisfied; one that does not gives None, the
\* preimage replaced by Dissatisfied; the depth is unchanged in both cases.
C8_HashLockOutcome ==
    (call.op \in HashLockOps /\ Len(prev) > 0 /\ last(prev).tag = "Push"
       /\ Len(last(prev).bytes) = 32) =>
        LET pre == last(prev).bytes
        IN /\ Len(stack) = Len(prev)
           /\ OwnHash(call.op, pre) = call.hash =>
                  /\ result = RetOk([type |-> "HashLock",
                                     hash |-> [ty |-> OwnTag(call.op),
                                               h |-> call.hash],
                                     preimage |-> pre])
                  /\ stack = ReplaceTop(prev, Satisfied)
           /\ OwnHash(call.op, pre) # call.hash =>
                  /\ result.kind = "None"
                  /\ stack = ReplaceTop(prev, Dissatisfied)

C8_Witness ==
    /\ call.op = "evaluate_hash160"
    /\ Len(prev) >= 2
    /\ last(prev) = Push(Pre32)
    /\ call.hash = hash160_hash(Pre32)
    /\ result.kind = "Ok"
    /\ last(stack) = Satisfied

\* C9: evaluate_multi makes one pop per call: a top Push that verifies
\* against the key gives Some(Ok(PublicKey)) and the stack without that
\* element, no marker pushed; a top Push that does not verify gives None and
\* the stack exactly as it was before the call.
C9_MultiPopRestore ==
    (call.op = "evaluate_multi" /\ Len(prev) > 0 /\ last(prev).tag = "Push") =>
        LET sig == verify_sersig(call.pk, last(prev).bytes)
        IN /\ sig.kind = "Ok" =>
                  /\ result = RetOk([type |-> "PublicKey", key |-> call.pk,
                                     sig |-> sig.c])
                  /\ stack = pop(prev)
           /\ sig.kind # "Ok" =>
                  /\ result.kind = "None"
                  /\ stack = prev

C9_Witness ==
    /\ call.op = "evaluate_multi"
    /\ Len(prev) >= 2
    /\ last(prev) = Push(Sig2Bytes)
    /\ call.pk = Pk1
    /\ result.kind = "None"
    /\ last(stack) = Push(Sig2Bytes)

\* C10: evaluate_multi returns a hard error, never None or Some(Ok), when the
\* top element is a boolean marker (UnexpectedStackBoolean) or the stack is
\* empty (UnexpectedStackEnd).
C10_MultiHardErrors ==
    call.op = "evaluate_multi" =>
        /\ Len(prev) = 0 =>
               (result.kind = "Err" /\ result.e.type = "UnexpectedStackEnd")
        /\ (Len(prev) > 0 /\ last(prev).tag \in {"Satisfied", "Dissatisfied"}) =>
               (result.kind = "Err" /\ result.e.type = "UnexpectedStackBoolean")

C10_Witness ==
    /\ call.op = "evaluate_multi"
    /\ Len(prev) >= 2
    /\ last(prev) = Dissatisfied
    /\ result.kind = "Err"
    /\ result.e.type = "UnexpectedStackBoolean"

\* the index of the key of keys that e is a valid signature of, 0 if none
SignerOf(e, keys) ==
    IF e.tag = "Push"
          /\ \E j \in 1..Len(keys) : verify_sersig(keys[j], e.bytes).kind = "Ok"
        THEN CHOOSE j \in 1..Len(keys) : verify_sersig(keys[j], e.bytes).kind = "Ok"
    ELSE 0

\* the signers of the top k elements of s, the top one first
TopSigners(s, keys, k) == [m \in 1..k |-> SignerOf(s[Len(s) + 1 - m], keys)]

\* the top k elements are signatures of k keys, in the order of the keys
SigsInKeyOrder(s, keys, k) ==
    /\ Len(s) >= k
    /\ \A m \in 1..k : TopSigners(s, keys, k)[m] # 0
    /\ \A m \in 1..(k - 1) :
           TopSigners(s, keys, k)[m] < TopSigners(s, keys, k)[m + 1]

\* the top k elements are signatures of k different keys, not in key order
SigsOutOfKeyOrder(s, keys, k) ==
    /\ Len(s) >= k
    /\ \A m \in 1..k : TopSigners(s, keys, k)[m] # 0
    /\ \A m, l \in 1..k :
           m # l => TopSigners(s, keys, k)[m] # TopSigners(s, keys, k)[l]
    /\ \E m \in 1..(k - 1) :
           TopSigners(s, keys, k)[m] > TopSigners(s, keys, k)[m + 1]

\* C11 (SpecMulti): with the driver trying the keys in policy order until k
\* constraints are emitted, a witness whose top k elements are valid
\* signatures of a subsequence of k keys in key order (the first-tried key's
\* signature on top) ends with k PublicKey constraints and those k
\* signatures consumed; the same signatures out of key order never yield k
\* constraints.
C11_MultisigOrdering ==
    drv.status # "idle" =>
        /\ (drv.status # "running"
              /\ SigsInKeyOrder(drv.start, drv.keys, drv.k)) =>
               /\ drv.status = "done"
               /\ drv.got = drv.k
               /\ stack = SubSeq(drv.start, 1, Len(drv.start) - drv.k)
        /\ SigsOutOfKeyOrder(drv.start, drv.keys, drv.k) => drv.got < drv.k

C11_Witness ==
    /\ drv.status = "done"
    /\ drv.keys = <<Pk1, Pk2, Pk3>>
    /\ drv.k = 2
    /\ drv.start = << Dissatisfied, Push(Sig3Bytes), Push(Sig1Bytes) >>
    /\ drv.got = 2
    /\ stack = << Dissatisfied >>

\* the element in the version slot and in the output commitment slot of
\* the stack the last call was made on
VerRead == prev[12]
OutputsRead == prev[4]

\* the little-endian value of four bytes
LittleEndian4(b) == ((b[4] * 256 + b[3]) * 256 + b[2]) * 256 + b[1]

\* C12 (SpecCov): evaluate_ver never pops: every element of the stack
\* before the call is still there in the same order; when the slot at index 11
\* is a 4-byte Push whose little-endian value is n, one Satisfied is pushed
\* and Some(Ok(VerEq)) returned; when the value differs, None is returned
\* and the stack is entirely unchanged.
C12_VerReadsOnly ==
    call.op = "evaluate_ver" =>
        /\ Len(stack) >= Len(prev)
        /\ SubSeq(stack, 1, Len(prev)) = prev
        /\ (Len(prev) >= 12 /\ VerRead.tag = "Push" /\ Len(VerRead.bytes) = 4) =>
               IF LittleEndian4(VerRead.bytes) = call.n
                   THEN /\ stack = Append(prev, Satisfied)
                        /\ result = RetOk([type |-> "VerEq", n |-> call.n])
               ELSE /\ stack = prev
                    /\ result = RetNone

C12_Witness ==
    /\ call.op = "evaluate_ver"
    /\ call.n = 513
    /\ Len(prev) = 13
    /\ VerRead = Push(<<2, 1, 0, 0>>)
    /\ result = RetNone
    /\ stack = prev

\* the size error of a covenant slot, reported with the given position
SizeErrAt(pos_ver, pos_outputs) ==
    /\ (call.op = "evaluate_ver" /\ Len(prev) >= 12
          /\ VerRead.tag = "Push" /\ Len(VerRead.bytes) # 4) =>
           result = RetErr([type |-> "CovWitnessSizeErr", pos |-> pos_ver,
                            expected |-> 4, actual |-> Len(VerRead.bytes)])
    /\ (call.op = "evaluate_outputs_pref" /\ Len(prev) >= 4
          /\ OutputsRead.tag = "Push" /\ Len(OutputsRead.bytes) # 32) =>
           result = RetErr([type |-> "CovWitnessSizeErr", pos |-> pos_outputs,
                            expected |-> 32, actual |-> Len(OutputsRead.bytes)])

\* C13 (SpecCov), as amended: a covenant slot Push of the wrong length is
\* the hard error CovWitnessSizeErr with expected = 4 (version) or 32 (output
\* commitment) and actual = the length found; the reported pos is 1 for the
\* version and 9 for the output commitment, not the index read.
C13_CovSizeErr == SizeErrAt(1, 9)

\* C13 as stated: the reported pos is the index of the slot that was read,
\* 11 for the version and 3 for the output commitment.
C13_PosIsSlotIndex == SizeErrAt(VerSlot, OutputsSlot)

C13_Witness ==
    /\ call.op = "evaluate_outputs_pref"
    /\ Len(prev) >= 4
    /\ OutputsRead = Push(Pre31)
    /\ result.kind = "Err"
    /\ result.e.type = "CovWitnessSizeErr"
    /\ result.e.actual = 31

\* C14 (SpecCov): evaluate_ver on a stack of fewer than 12 elements and
\* evaluate_outputs_pref on a stack of fewer than 4 elements return
\* Some(Err(..)) and do not abort.
C14_ShortStackIsError ==
    /\ (call.op = "evaluate_ver" /\ Len(prev) < 12) => result.kind = "Err"
    /\ (call.op = "evaluate_outputs_pref" /\ Len(prev) < 4) => result.kind = "Err"

\* C15 (SpecCov): with a 32-byte Push in the commitment slot and at least
\* max_elems elements, evaluate_outputs_pref pops exactly max_elems elements
\* whatever the outcome: when the digest of the prefix followed by those
\* elements' bytes in bottom-to-top order is the commitment, Satisfied is
\* pushed on the rest and Some(Ok(OutputsPref)) returned; otherwise the rest
\* is left and None returned.
C15_OutputsPrefConsumes ==
    (call.op = "evaluate_outputs_pref" /\ Len(prev) >= max_elems
       /\ OutputsRead.tag = "Push" /\ Len(OutputsRead.bytes) = 32) =>
        LET rest == SubSeq(prev, 1, Len(prev) - max_elems)
            preimage == call.pref \o Flatten(TopOf(prev, max_elems))
        IN IF as_inner(sha256d_hash(preimage)) = OutputsRead.bytes
               THEN /\ stack = Append(rest, Satisfied)
                    /\ Len(stack) = Len(prev) - max_elems + 1
                    /\ result = RetOk([type |-> "OutputsPref", pref |-> call.pref])
           ELSE /\ stack = rest
                /\ Len(stack) = Len(prev) - max_elems
                /\ result = RetNone

C15_Witness ==
    /\ call.op = "evaluate_outputs_pref"
    /\ Len(prev) = 13
    /\ result.kind = "Ok"
    /\ Len(stack) = 13 - max_elems + 1
    /\ Flatten(TopOf(prev, max_elems)) # Flatten(Reversed(TopOf(prev, max_elems)))

\* C16 (SpecCov): evaluate_outputs_pref returns a hard error and leaves
\* the stack unchanged when the commitment slot is not a Push
\* (ExpectedPush), is a Push of length other than 32 (CovWitnessSizeErr), or
\* the stack holds fewer than max_elems elements (UnexpectedStackEnd for a
\* well-formed slot).
C16_OutputsHardErrors ==
    call.op = "evaluate_outputs_pref" =>
        /\ (Len(prev) < max_elems \/ OutputsRead.tag # "Push"
              \/ Len(OutputsRead.bytes) # 32) =>
               /\ result.kind = "Err"
               /\ stack = prev
        /\ (Len(prev) >= 4 /\ OutputsRead.tag # "Push") =>
               result = RetErr(Err("ExpectedPush"))
        /\ (Len(prev) >= 4 /\ OutputsRead.tag = "Push"
              /\ Len(OutputsRead.bytes) # 32) =>
               (result.kind = "Err" /\ result.e.type = "CovWitnessSizeErr")
        /\ (Len(prev) < max_elems
              /\ ~(Len(prev) >= 4 /\ (OutputsRead.tag # "Push"
                                        \/ Len(OutputsRead.bytes) # 32))) =>
               result = RetErr(Err("UnexpectedStackEnd"))

\* the last turn of the loop of lex: the item it took, whether the
\* iterator let the item through, and whether lex failed on it
Stepped == pc > 1
LastItem == script[pc - 1]
LastWasOp == Stepped /\ LastItem.t = "Op"
LastWasPush ==
    /\ Stepped
    /\ LastItem.t = "PushBytes"
    /\ instructions_minimal(LastItem).kind = "Ok"
LexFailed == lexres.kind = "Err"
AfterPick == Len(pret) > 0 /\ pret[Len(pret)].t = "Pick"

\* C17 (SpecLex): every recognized zero-operand opcode that lex accepts
\* appends exactly one token to the tokens of the instructions before it,
\* except OP_EQUALVERIFY, OP_CHECKSIGVERIFY and OP_CHECKMULTISIGVERIFY, which
\* append exactly two: the base token, then Verify.  Only OP_VERIFY, of the
\* recognized opcodes, can make lex fail.
C17_OpcodeTokens ==
    LastWasOp =>
        LET op == LastItem.op
        IN /\ (op \in DOMAIN OpToken) =>
                  (~LexFailed /\ ret = Append(pret, Tok(OpToken[op])))
           /\ (op \in DOMAIN PushNumValue) =>
                  (~LexFailed /\ ret = Append(pret, Num(PushNumValue[op])))
           /\ (op \in DOMAIN VerifyOpToken) =>
                  /\ ~LexFailed
                  /\ Len(ret) = Len(pret) + 2
                  /\ SubSeq(ret, 1, Len(pret)) = pret
                  /\ ret[Len(ret) - 1] = Tok(VerifyOpToken[op])
                  /\ ret[Len(ret)] = Tok("Verify")
           /\ (op = "OP_VERIFY" /\ ~LexFailed) => ret = Append(pret, Tok("Verify"))
           /\ (op = "OP_CAT") =>
                  /\ ~LexFailed
                  /\ Len(ret) = Len(pret) + 1
                  /\ ret[Len(ret)] = Tok("Cat")

C17_Witness ==
    /\ LastWasOp
    /\ LastItem.op = "OP_CHECKSIGVERIFY"
    /\ Len(pret) = 2
    /\ ret = pret \o << Tok("CheckSig"), Tok("Verify") >>

\* bytes that are the shortest encoding of a number >= 0 that has no opcode
\* of its own
MinimalNonNegative(b) ==
    /\ Len(b) <= 4
    /\ Len(b) > 0 =>
           /\ b[Len(b)] < 128
           /\ b[Len(b)] # 0 \/ (Len(b) >= 2 /\ b[Len(b) - 1] >= 128)
           /\ ~(Len(b) = 1 /\ b[1] <= 16)

\* bytes of a number < 0: the sign bit is set and the rest is not zero
Negative(b) ==
    /\ Len(b) \in 1..4
    /\ b[Len(b)] >= 128
    /\ \E i \in 1..Len(b) : IF i = Len(b) THEN b[i] # 128 ELSE b[i] # 0

NonMinimalNonNegative(b) ==
    /\ Len(b) \in 1..4
    /\ ~Negative(b)
    /\ ~MinimalNonNegative(b)

\* the last turn took a non-minimal push of a number >= 0
LastWasNonMinimal ==
    /\ Stepped
    /\ LastItem.t = "PushBytes"
    /\ NonMinimalNonNegative(LastItem.v)

\* lex failed with a decoding error: of the push, or of the script
DecodingError == LexFailed /\ lexres.e.type \in {"InvalidPush", "Script"}

\* C19 (SpecLex), as amended: a push of 1 to 4 bytes that is a non-minimal
\* encoding of a number >= 0 makes lex fail with a decoding error, unless it
\* is a 4-byte push right after a Pick token, which is fused with the Pick;
\* in no case does it become a Num or an opaque Push token.
C19_MinimalityRejection ==
    LastWasNonMinimal =>
        /\ ~(AfterPick /\ Len(LastItem.v) = 4) => DecodingError
        /\ ~LexFailed => ret[Len(ret)].t \notin {"Num", "Push"}

\* C19 as stated: every such push makes lex fail with a decoding error.
C19_AlwaysRejected == LastWasNonMinimal => DecodingError

C19_Witness ==
    /\ LastWasNonMinimal
    /\ ~AfterPick
    /\ Len(pret) = 2
    /\ LastItem.v = <<5, 0, 0>>
    /\ lexres = RetErr([type |-> "InvalidPush", bytes |-> <<5, 0, 0>>])

TokenBytes(x) ==
    IF x.t = "Pubkey" THEN to_bytes(x.pk)
    ELSE IF x.t = "Num" THEN build_scriptint(x.n)
    ELSE x.v

\* the tokens before the Cat token that the last turn pushed
BeforeCat == SubSeq(ret, 1, Len(ret) - 1)

\* C22 (SpecLex): lexing OP_CAT changes at most the token two places
\* before the new Cat token: when the last token was Swap and the one before
\* it Hash20, Hash32, Pubkey or Num, that token becomes an opaque Push of the
\* same bytes (for Num, its script-integer encoding); no other token changes
\* and the count is kept; in every other situation nothing changes; the
\* rewrite applied again changes nothing.
C22_CatRewriteWindow ==
    (LastWasOp /\ LastItem.op = "OP_CAT") =>
        LET n == Len(pret)
        IN /\ ~LexFailed
           /\ Len(BeforeCat) = n
           /\ \A i \in 1..n : i # n - 1 => BeforeCat[i] = pret[i]
           /\ IF n >= 2 /\ pret[n].t = "Swap"
                  /\ pret[n - 1].t \in {"Hash20", "Hash32", "Pubkey", "Num"}
                  THEN BeforeCat[n - 1] = TokPush(TokenBytes(pret[n - 1]))
              ELSE BeforeCat = pret
           /\ process_candidate_push(BeforeCat) = BeforeCat

C22_Witness ==
    /\ LastWasOp
    /\ LastItem.op = "OP_CAT"
    /\ pret = << Num(2), Tok("Swap") >>
    /\ ret = << TokPush(<<2>>), Tok("Swap"), Tok("Cat") >>

VerifiableTokens == {"Equal", "CheckSig", "CheckMultiSig"}

\* tokens i and i + 1 of r are Equal, CheckSig or CheckMultiSig, then Verify
VerifyPairAt(r, i) == r[i].t \in VerifiableTokens /\ r[i + 1].t = "Verify"

\* C23 (SpecLex): OP_VERIFY right after OP_EQUAL, OP_CHECKSIG or
\* OP_CHECKMULTISIG makes lex fail with NonMinimalVerify carrying the token
\* before it; so a pair (Equal | CheckSig | CheckMultiSig, Verify) at the end
\* of the tokens was pushed by one verify-suffixed opcode, and a pair further
\* down was there, at the same place, before the last turn.
C23_NonMinimalVerify ==
    /\ (LastWasOp /\ LastItem.op = "OP_VERIFY" /\ Len(pret) > 0
          /\ pret[Len(pret)].t \in VerifiableTokens) =>
           lexres = RetErr([type |-> "NonMinimalVerify", tok |-> pret[Len(pret)]])
    /\ (Stepped /\ ~LexFailed) =>
           \A i \in 1..(Len(ret) - 1) :
               VerifyPairAt(ret, i) =>
                   IF i + 1 = Len(ret)
                       THEN /\ LastWasOp
                            /\ LastItem.op \in DOMAIN VerifyOpToken
                            /\ VerifyOpToken[LastItem.op] = ret[i].t
                            /\ Len(pret) = i - 1
                   ELSE i + 1 <= Len(pret) /\ VerifyPairAt(pret, i)

C23_Witness ==
    /\ LastWasOp
    /\ LastItem.op = "OP_VERIFY"
    /\ Len(pret) = 2
    /\ lexres = RetErr([type |-> "NonMinimalVerify", tok |-> Tok("CheckMultiSig")])

RecognizedOps ==
    DOMAIN OpToken \cup DOMAIN VerifyOpToken \cup DOMAIN PushNumValue
        \cup {"OP_CAT", "OP_VERIFY", "OP_PUSHBYTES_0"}

\* C24 (SpecLex): an opcode outside the recognized table makes lex return
\* Err(InvalidOpcode(op)) with that opcode; a lex that failed returns the
\* error alone, whatever tokens were made before, and a lex that returned
\* tokens went through the whole script.
C24_InvalidOpcode ==
    /\ (LastWasOp /\ LastItem.op \notin RecognizedOps) =>
           lexres = RetErr([type |-> "InvalidOpcode", op |-> LastItem.op])
    /\ LexFailed =>
           /\ DOMAIN lexres = {"kind", "e"}
           /\ lexres.e.type \in {"InvalidOpcode", "BadPubkey", "InvalidPush",
                                 "NonMinimalVerify", "Script"}
    /\ lexres.kind = "Ok" => (pc > Len(script) /\ lexres.c = ret)

C24_Witness ==
    /\ LastWasOp
    /\ Len(pret) = 2
    /\ lexres = RetErr([type |-> "InvalidOpcode", op |-> "OP_RETURN"])

\* a push of 65 bytes in the hybrid form of a public key
HybridKeyPush(item) ==
    item.t = "PushBytes" /\ Len(item.v) = 65 /\ item.v[1] \in {6, 7}

\* C25 (SpecLex), as amended: for every script that lex accepts and
\* that pushes no public key in hybrid form, re-encoding the returned tokens
\* gives the script back, item for item, scripts rewritten at OP_CAT
\* included.
C25_RoundTrip ==
    (lexres.kind = "Ok" /\ \A i \in 1..Len(script) : ~HybridKeyPush(script[i])) =>
        ReEncode(lexres.c) = script

\* C25 as stated: for every script that lex accepts, re-encoding the
\* returned tokens gives the script back.
C25_RoundTripEveryScript == lexres.kind = "Ok" => ReEncode(lexres.c) = script

C25_Witness ==
    /\ lexres.kind = "Ok"
    /\ script = << OpItem("OP_PUSHNUM_2"), OpItem("OP_SWAP"), OpItem("OP_CAT") >>
    /\ lexres.c = << TokPush(<<2>>), Tok("Swap"), Tok("Cat") >>
    /\ ReEncode(lexres.c) = script

\* C26 (SpecIter): next returns and removes the last token of the
\* vector; un_next(t) followed at once by next returns t and leaves the
\* vector as it was before the un_next; next and peek on an empty vector
\* return None and leave it empty; peek never changes the vector.
C26_TokenIterBackToFront ==
    /\ call.op = "next" =>
           /\ IF Len(pret) = 0 THEN result = RetNone /\ ret = <<>>
              ELSE /\ result = Some(pret[Len(pret)])
                   /\ ret = SubSeq(pret, 1, Len(pret) - 1)
           /\ call.after = "un_next" =>
                  (result = Some(call.tok) /\ ret = call.before)
    /\ call.op = "peek" =>
           /\ ret = pret
           /\ IF Len(pret) = 0 THEN result = RetNone
              ELSE result = Some(pret[Len(pret)])

C26_Witness ==
    /\ call.op = "next"
    /\ call.after = "un_next"
    /\ call.tok = Num(2)
    /\ Len(call.before) = 2
    /\ result = Some(Num(2))
    /\ ret = call.before

RedeemScript(d) ==
    IF d.variant = "Wsh"
        THEN <<0, 32>> \o SubSeq(as_inner(sha256_hash(d.script)), 1, 32)
    ELSE IF d.variant = "Wpkh"
        THEN <<0, 20>> \o SubSeq(as_inner(hash160_hash(to_bytes(d.pk))), 13, 32)
    ELSE d.script

\* the 20 bytes of the hash160 of a script
ScriptHash(scr) == SubSeq(as_inner(hash160_hash(scr)), 13, 32)

\* C28 (SpecSh): script_pubkey is the pay-to-script-hash script of the redeem
\* script R (the inner script_pubkey for Wsh and Wpkh, the encoded inner
\* script for SortedMulti and Ms), address is the p2sh address of the same
\* R, and unsigned_script_sig is one data push of exactly R for Wsh and
\* Wpkh and the empty script for SortedMulti and Ms.
C28_RedeemScript ==
    LET R == RedeemScript(sh)
    IN /\ call.op = "script_pubkey" =>
              result = <<169, 20>> \o ScriptHash(R) \o <<135>>
       /\ call.op = "address" =>
              /\ result.kind = "Some"
              /\ result.c.payload = "ScriptHash"
              /\ result.c.hash = ScriptHash(R)
              /\ result.c.network = call.network
       /\ call.op = "unsigned_script_sig" =>
              IF sh.variant \in {"Wsh", "Wpkh"}
                  THEN /\ Len(R) < 76
                       /\ result = <<Len(R)>> \o R
              ELSE result = <<>>

C28_Witness ==
    /\ call.op = "unsigned_script_sig"
    /\ sh.variant = "Wsh"
    /\ Len(sh.script) = 76
    /\ Len(result) = 35
    /\ result[1] = 34
    /\ SubSeq(result, 2, 35) = RedeemScript(sh)
    /\ SubSeq(result, 2, 3) = <<0, 32>>


\* the elements a script of pushes leaves on the stack, bottom first; a
\* script holding anything but pushes has none
RECURSIVE PushedElements(_)
PushedElements(b) ==
    IF Len(b) = 0 THEN <<>>
    ELSE LET op == b[1]
             rest == Tail(b)
         IN IF op = 0 THEN << <<>> >> \o PushedElements(rest)
            ELSE IF op <= 75 /\ Len(rest) >= op
                THEN <<SubSeq(rest, 1, op)>>
                     \o PushedElements(SubSeq(rest, op + 1, Len(rest)))
            ELSE IF op = 76 /\ Len(rest) >= 1 /\ Len(rest) >= 1 + rest[1]
                THEN <<SubSeq(rest, 2, 1 + rest[1])>>
                     \o PushedElements(SubSeq(rest, 2 + rest[1], Len(rest)))
            ELSE IF op = 77 /\ Len(rest) >= 2
                    /\ Len(rest) >= 2 + rest[1] + 256 * rest[2]
                THEN <<SubSeq(rest, 3, 2 + rest[1] + 256 * rest[2])>>
                     \o PushedElements(SubSeq(rest, 3 + rest[1] + 256 * rest[2],
                                              Len(rest)))
            ELSE IF op = 79 THEN << <<129>> >> \o PushedElements(rest)
            ELSE IF op >= 81 /\ op <= 96
                THEN << <<op - 80>> >> \o PushedElements(rest)
            ELSE << [notpush |-> op] >>

\* C29 (SpecSh): get_satisfaction of SortedMulti and Ms returns an empty
\* witness and a script_sig that pushes, one push per element and in order,
\* the inner satisfaction stack and then the serialized inner script; of
\* Wsh and Wpkh it returns the witness of the inner satisfaction and the
\* unsigned_script_sig; when the inner satisfier fails it returns that
\* error and no pair.
C29_GetSatisfaction ==
    call.op = "get_satisfaction" =>
        IF call.sat.kind = "Err"
            THEN result = [kind |-> "Err", e |-> call.sat.e]
        ELSE IF sh.variant \in {"SortedMulti", "Ms"}
            THEN /\ result.kind = "Ok"
                 /\ result.c.witness = <<>>
                 /\ PushedElements(result.c.script_sig)
                        = call.sat.c \o <<sh.script>>
        ELSE /\ result.kind = "Ok"
             /\ result.c.witness = inner_get_satisfaction(sh, call.sat).c.witness
             /\ result.c.script_sig = <<Len(RedeemScript(sh))>> \o RedeemScript(sh)

C29_Witness ==
    /\ call.op = "get_satisfaction"
    /\ sh.variant = "Ms"
    /\ Len(sh.script) = 76
    /\ call.sat = RetOk(<<ShSig, <<1>>>>)
    /\ result.kind = "Ok"
    /\ result.c.witness = <<>>
    /\ result.c.script_sig = <<72>> \o ShSig \o <<81>> \o <<76, 76>> \o sh.script


\* the serialized size of a script_sig: the length prefix and the bytes
SerializedSize(scriptsig) ==
    (IF Len(scriptsig) < 253 THEN 1 ELSE 3) + Len(scriptsig)

\* the script_sigs get_satisfaction can produce for d
ScriptSigs(d) == { get_satisfaction(d, RetOk(x)).c.script_sig : x \in d.sats }

\* C30 (SpecSh): for SortedMulti and Ms, max_satisfaction_weight is
\* 4 * (varint_len(L) + L) with L = push_opcode_size(ss) + ss + the inner
\* maximum satisfaction size, ss the length of the inner script; this is 4
\* times the serialized size of the largest script_sig get_satisfaction can
\* produce; and it is None exactly when the inner Ms has no maximum
\* satisfaction size.
C30_MaxSatisfactionWeight ==
    (call.op = "max_satisfaction_weight" /\ sh.variant \in {"SortedMulti", "Ms"}) =>
        LET ss == Len(sh.script)
            ps == IF ss < 76 THEN 1 ELSE IF ss < 256 THEN 2 ELSE 3
        IN /\ result.kind = "None" <=>
                  (sh.variant = "Ms" /\ sh.maxsat.kind = "None")
           /\ result.kind # "None" =>
                  LET L == ps + ss + sh.maxsat.c
                  IN /\ result = Some(4 * ((IF L <= 252 THEN 1 ELSE 3) + L))
                     /\ \E x \in ScriptSigs(sh) :
                            result.c = 4 * SerializedSize(x)
                     /\ \A x \in ScriptSigs(sh) :
                            result.c >= 4 * SerializedSize(x)

C30_Witness ==
    /\ call.op = "max_satisfaction_weight"
    /\ sh.variant = "SortedMulti"
    /\ Len(sh.script) = 104
    /\ sh.maxsat = Some(147)
    /\ result = Some(1024)


\* C31 (SpecSh): for Wpkh and Wsh, max_satisfaction_weight is 4 * 23 resp.
\* 4 * 35 plus the weight of the inner descriptor, 23 and 35 being the byte
\* lengths of the variant's unsigned_script_sig (one push opcode and the
\* redeem script of 22 resp. 34 bytes); it is None exactly when the inner
\* weight is None.
C31_NestedWeight ==
    (call.op = "max_satisfaction_weight" /\ sh.variant \in {"Wsh", "Wpkh"}) =>
        LET n == IF sh.variant = "Wsh" THEN 35 ELSE 23
        IN /\ Len(unsigned_script_sig(sh)) = n
           /\ Len(RedeemScript(sh)) = n - 1
           /\ result.kind = "None" <=> sh.maxsat.kind = "None"
           /\ result.kind # "None" => result = Some(4 * n + sh.maxsat.c)

C31_Witness ==
    /\ call.op = "max_satisfaction_weight"
    /\ sh.variant = "Wsh"
    /\ sh.maxsat = Some(108)
    /\ Len(unsigned_script_sig(sh)) = 35
    /\ result = Some(248)


\* the pay-to-pubkey-hash script of a key
P2pkhScript(pk) ==
    <<118, 169, 20>> \o SubSeq(as_inner(hash160_hash(to_bytes(pk))), 13, 32)
        \o <<136, 172>>

Converted(o) ==
    IF o.kind = "pk" THEN call.translatefpk[o.v] ELSE call.translatefpkh[o.v]

TranslatePkOutcome ==
    call.op = "translate_pk" =>
        IF \A i \in 1..Len(sh.occ) : Converted(sh.occ[i]).kind = "Ok"
            THEN /\ result.kind = "Ok"
                 /\ result.c.variant = sh.variant
                 /\ Len(result.c.occ) = Len(sh.occ)
                 /\ \A i \in 1..Len(sh.occ) :
                        result.c.occ[i] = [kind |-> sh.occ[i].kind,
                                           v |-> Converted(sh.occ[i]).c]
        ELSE LET n == Len(call.calls)
             IN /\ n >= 1
                /\ \A i \in 1..(n - 1) : Converted(call.calls[i]).kind = "Ok"
                /\ Converted(call.calls[n]).kind = "Err"
                /\ result = Converted(call.calls[n])
                /\ DOMAIN result = {"kind", "e"}

\* C33 (SpecSh): translate_pk returns, when every conversion succeeds, an
\* Sh of the same variant with every key and key hash replaced by its
\* conversion; when a conversion call fails it returns exactly that call's
\* error and no Sh; the descriptor it is called on is unchanged.
C33_TranslatePk ==
    /\ []TranslatePkOutcome
    /\ [][call'.op = "translate_pk" => sh' = sh]_vars

C33_Witness ==
    /\ call.op = "translate_pk"
    /\ sh.variant = "Wsh"
    /\ sh.occ = <<PkhOcc("hA"), PkOcc("B")>>
    /\ call.translatefpk["B"] = RetErr(Err("BadKeyB"))
    /\ call.translatefpkh["hA"] = RetOk("QhA")
    /\ Len(call.calls) = 2
    /\ result = RetErr(Err("BadKeyB"))


\* the tree from_tree is called on, by from_tree or from_str
TreeGiven ==
    IF call.op = "from_tree" THEN RetOk(call.tree)
    ELSE IF call.op = "from_str" /\ call.s.checksum # "mismatch" THEN call.s.tree
    ELSE RetNone

\* C34 (SpecNew): an Sh of variant Ms built by Sh::new, from_tree or from_str
\* has passed Legacy::top_level_checks, and when the check fails the
\* constructor returns its error and builds no Sh; from_tree accepts only a
\* tree named "sh" with one argument, any other gives Error::Unexpected, and
\* the variant follows the argument's name (wsh, wpkh, sortedmulti, else
\* Ms); from_str reports a checksum that does not match even when the body
\* does not parse.
C34_Constructors ==
    /\ (call.op \in {"new", "from_tree", "from_str"} /\ result.kind = "Ok") =>
           /\ sh = result.c
           /\ sh.variant = "Ms" => sh.inner.top.kind = "Ok"
    /\ (call.op \in {"new", "from_tree", "from_str"} /\ result.kind = "Err") =>
           sh = [variant |-> "none"]
    /\ (call.op = "new" /\ call.ms.top.kind = "Err") => result = call.ms.top
    /\ TreeGiven.kind = "Ok" =>
           LET tree == TreeGiven.c
           IN IF tree.name = "sh" /\ Len(tree.args) = 1
                  THEN LET top == tree.args[1]
                       IN IF top.parsed.kind = "Err" THEN result = top.parsed
                          ELSE IF top.name = "wsh"
                              THEN result = RetOk([variant |-> "Wsh", inner |-> top.parsed.c])
                          ELSE IF top.name = "wpkh"
                              THEN result = RetOk([variant |-> "Wpkh", inner |-> top.parsed.c])
                          ELSE IF top.name = "sortedmulti"
                              THEN result = RetOk([variant |-> "SortedMulti",
                                                   inner |-> top.parsed.c])
                          ELSE IF top.parsed.c.top.kind = "Err"
                              THEN result = top.parsed.c.top
                          ELSE result = RetOk([variant |-> "Ms", inner |-> top.parsed.c])
              ELSE /\ result.kind = "Err"
                   /\ result.e.type = "Unexpected"
    /\ (call.op = "from_str" /\ call.s.checksum = "mismatch") =>
           result = RetErr(Err("BadDescriptor"))

C34_Witness ==
    /\ call.op = "from_str"
    /\ call.s.checksum = "match"
    /\ call.s.tree.kind = "Ok"
    /\ call.s.tree.c.name = "sh"
    /\ Len(call.s.tree.c.args) = 1
    /\ call.s.tree.c.args[1].name = "multi"
    /\ call.s.tree.c.args[1].parsed.kind = "Ok"
    /\ call.s.tree.c.args[1].parsed.c.top = RetErr(Err("ContextError"))
    /\ result = RetErr(Err("ContextError"))
    /\ sh = [variant |-> "none"]


\* C35 (SpecIter): peek_slice(n) returns the last n tokens in stored order
\* and consumes nothing when n <= len, and None when n > len; advance(n)
\* removes exactly the last n tokens and returns Some(()) when n <= len, and
\* returns None with the stream unchanged when n > len; len is the number of
\* tokens not yet consumed.
C35_BulkOperations ==
    /\ call.op = "peek_slice" =>
           /\ ret = pret
           /\ IF call.n <= Len(pret)
                  THEN /\ result.kind = "Some"
                       /\ Len(result.c) = call.n
                       /\ \A i \in 1..call.n :
                              result.c[i] = pret[Len(pret) - call.n + i]
              ELSE result = RetNone
    /\ call.op = "advance" =>
           IF call.n <= Len(pret)
               THEN /\ result = Some([kind |-> "Unit"])
                    /\ Len(ret) = Len(pret) - call.n
                    /\ \A i \in 1..Len(ret) : ret[i] = pret[i]
           ELSE /\ result = RetNone
                /\ ret = pret
    /\ call.op = "len" =>
           /\ result = Len(ret)
           /\ ret = pret

C35_Witness ==
    /\ call.op = "advance"
    /\ call.n = 2
    /\ Len(pret) = 3
    /\ pret[1] # pret[3]
    /\ result = Some([kind |-> "Unit"])
    /\ ret = << pret[1] >>


\* the evaluators that can return None
SoftEvaluators ==
    { "evaluate_pk", "evaluate_pkh", "evaluate_sha256", "evaluate_hash256",
      "evaluate_hash160", "evaluate_ripemd160", "evaluate_multi",
      "evaluate_ver", "evaluate_outputs_pref" }

\* C36 (SpecCov): whenever an evaluator returns None, the top element of the
\* stack is Dissatisfied.
C36_NoneLeavesDissatisfied ==
    (call.op \in SoftEvaluators /\ result = RetNone) =>
        /\ Len(stack) >= 1
        /\ stack[Len(stack)] = Dissatisfied


\* the elements an evaluator pops before a success, and the change of the
\* depth a success makes
HashLockEvaluators ==
    { "evaluate_sha256", "evaluate_hash256", "evaluate_hash160",
      "evaluate_ripemd160" }
Popped(op) ==
    IF op = "evaluate_pk" \/ op \in HashLockEvaluators THEN 1
    ELSE IF op = "evaluate_pkh" THEN 2
    ELSE IF op = "evaluate_outputs_pref" THEN max_elems
    ELSE 0
DepthChange(op) ==
    IF op = "evaluate_pk" \/ op \in HashLockEvaluators THEN 0
    ELSE IF op = "evaluate_pkh" THEN 0 - 1
    ELSE 1

\* C37 (SpecEval): whenever an evaluator other than evaluate_multi returns
\* Some(Ok(constraint)), the top of the stack is Satisfied, the depth has
\* changed by 0 for evaluate_pk and the hash-lock evaluators, by -1 for
\* evaluate_pkh and by +1 for the timelock evaluators and evaluate_ver, and
\* every element below the popped ones is unchanged.
C37_SuccessLeavesSatisfied ==
    (call.op \in (SoftEvaluators \cup {"evaluate_after", "evaluate_older"})
                     \ {"evaluate_multi"}
       /\ result.kind = "Ok") =>
        /\ Len(stack) >= 1
        /\ stack[Len(stack)] = Satisfied
        /\ call.op # "evaluate_outputs_pref" =>
               Len(stack) = Len(prev) + DepthChange(call.op)
        /\ Len(prev) >= Popped(call.op)
        /\ \A i \in 1..(Len(prev) - Popped(call.op)) : stack[i] = prev[i]

C37_Witness ==
    /\ call.op = "evaluate_ver"
    /\ result.kind = "Ok"
    /\ Len(prev) = 13
    /\ prev[13] = Satisfied
    /\ Len(stack) = 14
    /\ stack[14] = Satisfied
    /\ SubSeq(stack, 1, 13) = prev


\* the elements an evaluator needs on the stack
Required(op) == IF op = "evaluate_pkh" THEN 2 ELSE 1

\* C38 (Spec): evaluate_pk, evaluate_pkh, evaluate_multi and the hash-lock
\* evaluators return UnexpectedStackEnd only when the stack held fewer
\* elements than they pop.
C38_UnderflowOnlyWhenShort ==
    (call.op \in {"evaluate_pk", "evaluate_pkh", "evaluate_multi"}
                     \cup HashLockEvaluators
       /\ result = RetErr(Err("UnexpectedStackEnd"))) =>
        Len(prev) < Required(call.op)


\* C39 (SpecCov): when evaluate_outputs_pref consumes the suffix, the
\* commitment slot it read lies below the max_elems suffix elements, and
\* every element below them, the commitment slot included, is unchanged.
C39_CommitmentSlotKept ==
    (call.op = "evaluate_outputs_pref" /\ result.kind \in {"None", "Ok"}) =>
        /\ OutputsSlot < Len(prev) - max_elems
        /\ \A i \in 1..(Len(prev) - max_elems) : stack[i] = prev[i]
        /\ InBounds(stack, OutputsSlot)
        /\ At(stack, OutputsSlot) = At(prev, OutputsSlot)


\* the elements evaluate_outputs_pref popped
SuffixPopped ==
    Len(prev) - (IF result.kind = "Ok" THEN Len(stack) - 1 ELSE Len(stack))

\* C40 (SpecCov): evaluate_outputs_pref concatenates and pops exactly 6
\* elements, the value of max_elems.
C40_SixSuffixElements ==
    (call.op = "evaluate_outputs_pref" /\ result.kind \in {"None", "Ok"}) =>
        /\ max_elems = 6
        /\ SuffixPopped = 6

====
